---- MODULE Spec2Model ----
(***************************************************************************)
(* Agent Turn Loop of remote-swe-agents: onMessageReceived / resume /      *)
(* agentLoop (packages/worker/src/agent/index.ts) together with the parts  *)
(* of the LLM client (converse) that decide how a failed call is retried.  *)
(*                                                                         *)
(* One worker process serves one session.  The loop is a single            *)
(* cooperative thread: every action below is the code that runs between    *)
(* two awaits.  The cancellation token is set by an out-of-band command,   *)
(* which can happen between any two of these steps.                        *)
(***************************************************************************)
EXTENDS Integers, Sequences, FiniteSets, TLC

(* ---- bounds of the model ---- *)
MaxLog == 5          \* items in the log: no user message and no tool_use response
                     \* is taken that would leave no room for the final response
MaxTools == 2        \* toolUse blocks in one assistant message
MaxTurns == 2        \* calls of onMessageReceived in one behaviour
MaxAccounts == 2     \* entries of BEDROCK_AWS_ACCOUNTS
MaxRetries == 6      \* retries of the pRetry wrapper around converse (the code
                     \* passes retries: 100; the model keeps the wrapper's logic
                     \* and explores it with this many retries)

(* ---- program constants ---- *)
maxTokensExceededLimit == 5 \* converse throws when maxTokensExceededCount > 5

VARIABLES
  log,                    \* message items of the session, in sort-key order
  agentStatus,            \* session.agentStatus
  title,                  \* session.title ("" = unset)
  pc,                     \* position of the worker in onMessageReceived/agentLoop
  isCancelled,            \* cancellationToken.isCancelled
  completeCancelCount,    \* calls of cancellationToken.completeCancel() in this turn
  res,                    \* the LLM response the loop is working on
  toolIdx,                \* index of the toolUse request being processed
  toolResultMessage,      \* toolResult blocks collected so far (their toolUseIds)
  attemptCount,           \* pRetry attempt number of the current converse wrapper
  maxTokensExceededCount, \* agentLoop's counter of max_tokens stops in this turn
  currentAccountIndex,    \* process-wide Bedrock account index
  awsAccounts,            \* number of configured accounts
  LLM_PROVIDER,           \* 'bedrock' or 'anthropic'
  events,                 \* events published in this turn, in order
  error,                  \* the error the last attempt threw; agentLoop rejects
                          \* with it when the wrapper gives up ("none" otherwise)
  turns,                  \* calls of onMessageReceived so far
  cancelledAt,            \* when the token was set in this turn ("none" if not)
  toolResult,             \* the tool dispatch locals: the caught error e and
                          \* the toolResult text of the current request
  historyLen,             \* allItems.length: items of the history the turn read
  \* -- one call of converse (the LLM client) --
  modelConfig,            \* modelConfigs[modelType] of the chosen model
  input,                  \* the caller's ConverseCommandInput
  request,                \* the request handed to the provider SDK
  \* -- the message window of agentLoop (context manager) --
  allItems,               \* the history read at the start of the turn
  initialItems,           \* items of the initial middle-out window
  appendedItems,          \* items saved by this turn
  firstCachePoint,        \* index of the first message cache point
  secondCachePoint,       \* index of the second message cache point
  window,                 \* the filter result the request is built from
  \* -- one call of generateSessionTitle and the title update --
  titleCall,              \* the model's output, whether converse threw, and
                          \* the title generateSessionTitle returned
  \* -- the token ledger item of one (workerId, modelId) --
  ledger,                 \* the stored item ("exists" false: no item yet)
  calls,                  \* the calls of trackTokenUsage: position, usage and
                          \* the result of their Get
  \* -- the setup of agentLoop and the dispatch of one request --
  customAgent,            \* the agent of the session: its tool list, and
                          \* whether its MCP configuration serves tools
  tools,                  \* the built-in tools kept by the filter, in order
  toolUse,                \* the name of the requested tool
  systemPrompt,           \* the sections of the prompt, in order
  repo,                   \* the 'repo' metadata of the worker
  \* -- the session records of the store --
  sessions,               \* workerId -> record (or no record)
  listing,                \* the last call of getSessions and what it returned
  now                     \* Date.now()

loopVars == <<log, agentStatus, title, pc, isCancelled, completeCancelCount, res,
              toolIdx, toolResultMessage, attemptCount, maxTokensExceededCount,
              currentAccountIndex, awsAccounts, LLM_PROVIDER, events, error, turns,
              cancelledAt, toolResult, historyLen>>

clientVars == <<modelConfig, input, request>>

contextVars == <<allItems, initialItems, appendedItems, firstCachePoint,
                 secondCachePoint, window>>

titleVars == <<titleCall>>

ledgerVars == <<ledger, calls>>

agentVars == <<customAgent, tools, toolUse, systemPrompt, repo>>

sessionVars == <<sessions, listing, now>>

\* the variables of the specifications of single components
sideVars == <<clientVars, contextVars, titleVars, ledgerVars, agentVars, sessionVars>>

vars == <<loopVars, sideVars>>

None == [stopReason |-> "none", toolUseIds |-> <<>>, hasContent |-> FALSE]

(* ---- items of the message log ---- *)
Item(messageType, role, ids) ==
  [messageType |-> messageType, role |-> role, toolUseIds |-> ids]

UserMessageItem == Item("userMessage", "user", <<>>)
AssistantResponseItem == Item("assistantResponse", "assistant", <<>>)
ToolUseItem(ids) == Item("toolUse", "assistant", ids)
ToolResultItem(ids) == Item("toolResult", "user", ids)

\* items.at(-1)?.messageType
LastMessageType(items) ==
  IF Len(items) = 0 THEN "undefined" ELSE items[Len(items)].messageType

(* ---- responses of the provider ---- *)
\* toolUseIds are chosen by the provider; they are unique in the session
ToolUseIdsOf(n, k) == [i \in 1..k |-> <<n, i>>]

Responses(n) ==
  {[stopReason |-> "end_turn", toolUseIds |-> <<>>, hasContent |-> TRUE],
   [stopReason |-> "end_turn", toolUseIds |-> <<>>, hasContent |-> FALSE],
   [stopReason |-> "max_tokens", toolUseIds |-> <<>>, hasContent |-> TRUE]}
  \cup {[stopReason |-> "tool_use", toolUseIds |-> ToolUseIdsOf(n, k),
         hasContent |-> TRUE] : k \in 1..MaxTools}

Event(type, id) == [type |-> type, toolUseId |-> id]

(***************************************************************************)
(* The LLM client: one call of converse(workerId, modelTypes, input,       *)
(* maxTokensExceededCount) as agentLoop makes it (no inferenceConfig).     *)
(* Texts are sequences of characters.                                      *)
(***************************************************************************)
MaxMessages == 3     \* messages of the input of one call

(* ---- program constants ---- *)
defaultOutputTokenCount == 8192     \* converse.ts
anthropicDefaultMaxTokens == 8192   \* inferenceConfig?.maxTokens || 8192
defaultBudget == 2000               \* reasoning budget without the keyword
maxUltraBudget == 31999             \* cap of the reasoning budget with it

ULTRA_THINKING_KEYWORD == <<"u", "l", "t", "r", "a", "t", "h", "i", "n", "k">>

Min(a, b) == IF a <= b THEN a ELSE b
Max(a, b) == IF a >= b THEN a ELSE b

upperCase == <<"A", "B", "C", "D", "E", "F", "G", "H", "I", "J", "K", "L", "M",
               "N", "O", "P", "Q", "R", "S", "T", "U", "V", "W", "X", "Y", "Z">>
lowerCase == <<"a", "b", "c", "d", "e", "f", "g", "h", "i", "j", "k", "l", "m",
               "n", "o", "p", "q", "r", "s", "t", "u", "v", "w", "x", "y", "z">>

\* String.prototype.toLowerCase
ToLowerCase(s) ==
  [i \in 1..Len(s) |->
     IF \E j \in 1..Len(upperCase) : upperCase[j] = s[i]
       THEN lowerCase[CHOOSE j \in 1..Len(upperCase) : upperCase[j] = s[i]]
       ELSE s[i]]

\* String.prototype.includes
Includes(s, k) ==
  \E i \in 0..(Len(s) - Len(k)) : SubSeq(s, i + 1, i + Len(k)) = k

\* Array.prototype.join
RECURSIVE Join(_, _)
Join(parts, sep) ==
  IF Len(parts) = 0 THEN <<>>
  ELSE IF Len(parts) = 1 THEN parts[1]
  ELSE parts[1] \o sep \o Join(Tail(parts), sep)

(* ---- content blocks and messages ---- *)
Block(kind, text) == [kind |-> kind, text |-> text]
TextBlock(t) == Block("text", t)
ToolUseBlock == Block("toolUse", <<>>)
ToolResultBlock == Block("toolResult", <<>>)
ReasoningBlock == Block("reasoningContent", <<"h", "m">>)
CachePointBlock == Block("cachePoint", <<>>)
ToolSpecBlock(name) == Block("toolSpec", name)

Message(role, content) == [role |-> role, content |-> content]

(* ---- the inputs of a call ---- *)
\* texts of user messages: without the keyword, with it in mixed case inside a
\* longer text, and with its two halves apart (text blocks are never empty:
\* the providers reject a blank text block)
Texts ==
  {<<"f", "i", "x">>,
   <<"g", "o", " ", "U", "l", "t", "r", "a", "T", "H", "I", "N", "K", "!">>,
   <<"u", "l", "t", "r", "a", " ", "t", "h", "i", "n", "k">>}

UserContents == {<<TextBlock(t)>> : t \in Texts} \cup {<<ToolResultBlock>>}

AssistantContents ==
  {<<TextBlock(<<"o", "k">>)>>,
   <<ReasoningBlock, TextBlock(<<"o", "k">>)>>,
   <<ToolUseBlock>>,
   <<ReasoningBlock, ToolUseBlock>>,
   <<TextBlock(<<"o", "k">>), ToolUseBlock>>}

\* roles alternate and the last message is the user's
RoleAt(i, n) == IF (n - i) % 2 = 0 THEN "user" ELSE "assistant"

EndsWithToolUse(content) ==
  Len(content) > 0 /\ content[Len(content)].kind = "toolUse"

\* message lists of length n: a toolResult message answers a message that ends
\* with toolUse blocks, a text message follows any other message
Conversations(n) ==
  {[i \in 1..n |-> Message(RoleAt(i, n), c[i])] :
     c \in {d \in [1..n -> UserContents \cup AssistantContents] :
              \A i \in 1..n :
                /\ d[i] \in IF RoleAt(i, n) = "user"
                              THEN UserContents ELSE AssistantContents
                /\ (i > 1 /\ RoleAt(i, n) = "user") =>
                     (d[i] = <<ToolResultBlock>> <=> EndsWithToolUse(d[i - 1]))}}

\* agentLoop's cache points: a cachePoint block is appended to the content of
\* the messages at the given (0-based) indexes
WithCachePoints(messages, indexes) ==
  [i \in 1..Len(messages) |->
     IF (i - 1) \in indexes
       THEN Message(messages[i].role, Append(messages[i].content, CachePointBlock))
       ELSE messages[i]]

\* the message lists of a call: with the cache points of the first iteration
\* of a turn, or without any
InputMessages ==
  UNION {{m, WithCachePoints(m, {Len(m) - 1,
                                 IF Len(m) > 2 THEN Len(m) - 3 ELSE Len(m) - 1})} :
           m \in UNION {Conversations(n) : n \in 1..MaxMessages}}

\* system: [{ text: systemPrompt }, { cachePoint }]; the tool catalog ends with
\* a cachePoint entry
Inputs ==
  [messages : InputMessages,
   system : {<<TextBlock(<<"s", "y", "s">>), CachePointBlock>>},
   tools : {<<ToolSpecBlock(<<"a">>), ToolSpecBlock(<<"b">>), CachePointBlock>>},
   toolChoice : {"absent", "auto"}]

\* capability descriptors of models
ModelConfigs ==
  [maxOutputTokens : {8192, 64000},
   reasoningSupport : BOOLEAN,
   toolChoiceSupport : {{}, {"auto"}},
   cacheSupport : {{}, {"message"}, {"system", "tool"}, {"system", "tool", "message"}}]

NoRequest == [provider |-> "none"]

NoConverse ==
  /\ modelConfig = [maxOutputTokens |-> 0]
  /\ input = [toolChoice |-> "absent"]
  /\ request = NoRequest

(* ---- converse.ts (Bedrock) ---- *)

\* a check of the last user message whatever its content
shouldUltraThinkLastUserMessage(inp) ==
  LET users == SelectSeq(inp.messages, LAMBDA m : m.role = "user")
  IN /\ Len(users) > 0
     /\ Includes(ToLowerCase(Join([i \in 1..Len(users[Len(users)].content) |->
                                     IF users[Len(users)].content[i].kind = "text"
                                       THEN users[Len(users)].content[i].text
                                       ELSE <<>>], <<" ">>)),
                 ULTRA_THINKING_KEYWORD)

\* the last user message with a text block; its texts joined and lowercased
shouldUltraThink(inp) ==
  LET users == SelectSeq(inp.messages,
                 LAMBDA m : /\ m.role = "user"
                            /\ \E i \in 1..Len(m.content) : m.content[i].kind = "text")
  IN /\ Len(users) > 0
     /\ Includes(ToLowerCase(Join([i \in 1..Len(users[Len(users)].content) |->
                                     IF users[Len(users)].content[i].kind = "text"
                                       THEN users[Len(users)].content[i].text
                                       ELSE <<>>], <<" ">>)),
                 ULTRA_THINKING_KEYWORD)

\* input.messages?.at(-2)?.content?.at(0) is a reasoningContent block
SecondToLastStartsWithReasoning(messages) ==
  /\ Len(messages) >= 2
  /\ Len(messages[Len(messages) - 1].content) > 0
  /\ messages[Len(messages) - 1].content[1].kind = "reasoningContent"

\* input.messages?.at(-2)?.content?.at(-1) is a toolUse block
SecondToLastEndsWithToolUse(messages) ==
  /\ Len(messages) >= 2
  /\ EndsWithToolUse(messages[Len(messages) - 1].content)

\* the toolChoice left after "remove toolChoice if not supported"
SupportedToolChoice(inp, cfg) ==
  IF inp.toolChoice # "absent" /\ inp.toolChoice \notin cfg.toolChoiceSupport
    THEN "absent" ELSE inp.toolChoice

adjustedMaxToken(cfg, k) ==
  Min(cfg.maxOutputTokens, defaultOutputTokenCount * 2 ^ k)

enableReasoning(inp, cfg) ==
  /\ cfg.reasoningSupport
  /\ SupportedToolChoice(inp, cfg) = "absent"
  /\ ~(/\ ~SecondToLastStartsWithReasoning(inp.messages)
       /\ SecondToLastEndsWithToolUse(inp.messages))

\* enableUltraThink ? min(floor(maxOutputTokens / 2), 31999) : 2000
Budget(enableUltraThink, cfg) ==
  IF enableUltraThink
    THEN Min(cfg.maxOutputTokens \div 2, maxUltraBudget)
    ELSE defaultBudget

\* content.filter((c) => !('reasoningContent' in c)) on every message
RemoveReasoningContent(messages) ==
  [i \in 1..Len(messages) |->
     Message(messages[i].role,
             SelectSeq(messages[i].content, LAMBDA c : c.kind # "reasoningContent"))]

\* a loop that removes nothing
KeepCachePoints(blocks) == blocks

\* for (i = length - 1; i >= 0; i--) if ('cachePoint' in blocks[i]) splice(i, 1)
RECURSIVE SpliceCachePoints(_, _)
SpliceCachePoints(blocks, i) ==
  IF i < 1 THEN blocks
  ELSE IF blocks[i].kind = "cachePoint"
    THEN SpliceCachePoints(SubSeq(blocks, 1, i - 1) \o SubSeq(blocks, i + 1, Len(blocks)),
                           i - 1)
    ELSE SpliceCachePoints(blocks, i - 1)

RemoveCachePoints(blocks) == SpliceCachePoints(blocks, Len(blocks))

\* preProcessInput: works on a structuredClone of the input
preProcessInput(inp, cfg, k) ==
  LET reasoning == enableReasoning(inp, cfg)
      enableUltraThink == shouldUltraThink(inp)
      budget == Budget(enableUltraThink, cfg)
      messages == IF reasoning THEN inp.messages
                  ELSE RemoveReasoningContent(inp.messages)
  IN [provider |-> "bedrock",
      toolChoice |-> SupportedToolChoice(inp, cfg),
      maxTokens |-> IF reasoning
                      THEN Max(adjustedMaxToken(cfg, k),
                               Min(budget * 2, cfg.maxOutputTokens))
                      ELSE adjustedMaxToken(cfg, k),
      reasoning |-> reasoning,
      budget_tokens |-> IF reasoning THEN budget ELSE 0,
      thinkingBudget |-> IF reasoning /\ enableUltraThink THEN budget ELSE 0,
      system |-> IF "system" \notin cfg.cacheSupport
                   THEN RemoveCachePoints(inp.system) ELSE inp.system,
      tools |-> IF "tool" \notin cfg.cacheSupport
                  THEN RemoveCachePoints(inp.tools) ELSE inp.tools,
      messages |-> IF "message" \notin cfg.cacheSupport
                     THEN [i \in 1..Len(messages) |->
                             Message(messages[i].role,
                                     RemoveCachePoints(messages[i].content))]
                     ELSE messages]

(* ---- anthropic-client.ts ---- *)

\* the blocks convertToAnthropicFormat pushes for one message: text (not
\* empty), tool_use, tool_result and thinking; any other block is dropped
AnthropicContent(content) ==
  LET kept == SelectSeq(content,
                LAMBDA c : \/ c.kind = "text" /\ c.text # <<>>
                           \/ c.kind \in {"toolUse", "toolResult", "reasoningContent"})
  IN [i \in 1..Len(kept) |->
        Block(CASE kept[i].kind = "text" -> "text"
                [] kept[i].kind = "toolUse" -> "tool_use"
                [] kept[i].kind = "toolResult" -> "tool_result"
                [] kept[i].kind = "reasoningContent" -> "thinking",
              kept[i].text)]

\* the last user message with a non-empty text block; its texts (and the text
\* of reasoning blocks) joined and lowercased
anthropicShouldUltraThink(inp) ==
  LET users == SelectSeq(inp.messages,
                 LAMBDA m : /\ m.role = "user"
                            /\ \E i \in 1..Len(m.content) :
                                 m.content[i].kind = "text" /\ m.content[i].text # <<>>)
  IN /\ Len(users) > 0
     /\ Includes(ToLowerCase(Join([i \in 1..Len(users[Len(users)].content) |->
                                     IF users[Len(users)].content[i].kind
                                          \in {"text", "reasoningContent"}
                                       THEN users[Len(users)].content[i].text
                                       ELSE <<>>], <<" ">>)),
                 ULTRA_THINKING_KEYWORD)

shouldEnableReasoning(inp, cfg) ==
  /\ cfg.reasoningSupport
  /\ inp.toolChoice = "absent"
  /\ ~(/\ SecondToLastStartsWithReasoning(inp.messages)
       /\ SecondToLastEndsWithToolUse(inp.messages))

\* the keys of an entry of system or toolConfig.tools: the loop's entries hold
\* one key each, the cachePoint being an entry of its own
KeysOf(b) == {b.kind}

\* cache_control of the converted blocks: { type: 'ephemeral' } for an entry
\* that holds a cachePoint key next to its text or toolSpec
CacheControl(entries) ==
  [i \in 1..Len(entries) |-> "cachePoint" \in KeysOf(entries[i])]

\* convertToAnthropicFormat and the request parameters built from it: no
\* tool_choice is sent; system blocks and tools without text or toolSpec
\* (the cachePoint entries) are skipped
convertToAnthropicFormat(inp, cfg) ==
  LET thinking == shouldEnableReasoning(inp, cfg)
      budget == Budget(anthropicShouldUltraThink(inp), cfg)
  IN [provider |-> "anthropic",
      toolChoice |-> "absent",
      maxTokens |-> anthropicDefaultMaxTokens,
      reasoning |-> thinking,
      budget_tokens |-> IF thinking THEN budget ELSE 0,
      thinkingBudget |-> IF thinking /\ budget # defaultBudget THEN budget ELSE 0,
      system |-> SelectSeq(inp.system, LAMBDA b : b.kind = "text" /\ b.text # <<>>),
      systemCacheControl |->
        CacheControl(SelectSeq(inp.system,
                               LAMBDA b : b.kind = "text" /\ b.text # <<>>)),
      tools |-> SelectSeq(inp.tools, LAMBDA b : b.kind = "toolSpec"),
      toolsCacheControl |->
        CacheControl(SelectSeq(inp.tools, LAMBDA b : b.kind = "toolSpec")),
      messages |-> [i \in 1..Len(inp.messages) |->
                      Message(inp.messages[i].role,
                              AnthropicContent(inp.messages[i].content))]]


(***************************************************************************)
(* The message window of agentLoop: the items of the turn, the filter that *)
(* projects them into messages, and the cache points of the request.       *)
(***************************************************************************)
MaxHistory == 4      \* items of the history a turn starts on
MaxAppendedPairs == 2 \* toolUse/toolResult pairs the turn appends

(* ---- program constants ---- *)
tokenThreshold == 190000

MaxItemTokens == 60000 \* tokens one item adds to the window at most

\* tokenCount values of items
TokenCounts == {0, 1000, 60000}

\* inputTokens + cacheReadInputTokens + cacheWriteInputTokens of a response
\* (0: the response has no usage)
BilledTokens == {0, 1000, 195000}

\* outputTokens of a response
OutputTokenCounts == {0, 1000}

\* a loop that takes the billed tokens for the count of the last item
TokenCountBilled(billed, totalTokenCount) == billed

\* const tokenCount = inputTokens + cacheReadInputTokens +
\* cacheWriteInputTokens - totalTokenCount
TokenCountOf(billed, totalTokenCount) == billed - totalTokenCount

\* the response as far as the window depends on it
Response(stopReason, billed, outputTokenCount) ==
  [stopReason |-> stopReason, inputTokens |-> billed,
   outputTokenCount |-> outputTokenCount]

TokenItem(messageType, tokenCount) ==
  [messageType |-> messageType,
   role |-> IF messageType \in {"userMessage", "toolResult"} THEN "user" ELSE "assistant",
   tokenCount |-> tokenCount]

\* items.reduce((sum, item) => sum + item.tokenCount, 0)
RECURSIVE TotalTokenCount(_)
TotalTokenCount(items) ==
  IF Len(items) = 0 THEN 0
  ELSE items[1].tokenCount + TotalTokenCount(Tail(items))

\* histories a turn starts on: the first item is a userMessage, a toolUse
\* item is followed by its toolResult item, an assistantResponse ends a turn
\* and the last item is the trigger of this turn
Histories ==
  UNION {{[i \in 1..n |-> TokenItem(t[i], c[i])] :
            t \in {h \in [1..n -> {"userMessage", "assistantResponse", "toolUse",
                                   "toolResult"}] :
                     /\ h[1] = "userMessage"
                     /\ h[n] \in {"userMessage", "toolResult"}
                     /\ \A i \in 1..n :
                          /\ h[i] = "toolUse" => i < n /\ h[i + 1] = "toolResult"
                          /\ h[i] = "toolResult" => i > 1 /\ h[i - 1] = "toolUse"
                          /\ h[i] = "assistantResponse" =>
                               /\ h[i - 1] \in {"userMessage", "toolResult"}
                               /\ i < n /\ h[i + 1] = "userMessage"},
            c \in [1..n -> TokenCounts]} :
         n \in 1..MaxHistory}

\* the items middle-out keeps: the first p and the last s items
Kept(items, p, s) ==
  SubSeq(items, 1, p) \o SubSeq(items, Len(items) - s + 1, Len(items))

\* the cuts middle-out may make: a contiguous middle range is removed, the
\* earliest and the latest item stay and no toolUse/toolResult pair is split
Cuts(items) ==
  {ps \in (1..Len(items)) \X (1..Len(items)) :
     /\ ps[1] + ps[2] < Len(items)
     /\ items[ps[1]].messageType # "toolUse"
     /\ items[Len(items) - ps[2] + 1].messageType # "toolResult"}

\* middleOutFiltering: the windows it may return. Within the cap nothing is
\* removed; else a middle range is removed so that the rest fits (when no cut
\* fits, the cut that keeps the fewest tokens is taken)
middleOutFiltering(items) ==
  IF TotalTokenCount(items) <= tokenThreshold \/ Cuts(items) = {}
    THEN {items}
    ELSE LET fits == {ps \in Cuts(items) :
                        TotalTokenCount(Kept(items, ps[1], ps[2])) <= tokenThreshold}
             least == {ps \in Cuts(items) :
                         \A qs \in Cuts(items) :
                           TotalTokenCount(Kept(items, ps[1], ps[2]))
                             <= TotalTokenCount(Kept(items, qs[1], qs[2]))}
         IN {Kept(items, ps[1], ps[2]) : ps \in IF fits # {} THEN fits ELSE least}

\* noOpFiltering: every item is projected
noOpFiltering(items) == {items}

\* a loop that never applies middle-out
ChooseNoOpFiltering(items) == "noOp"

\* if (totalBeforeFiltering > tokenThreshold) middle-out, else no-op
ChooseFiltering(items) ==
  IF TotalTokenCount(items) > tokenThreshold THEN "middleOut" ELSE "noOp"

NoWindowResult == [filter |-> "none", messages |-> <<>>, totalTokenCount |-> 0]

NoWindow ==
  /\ allItems = <<>>
  /\ initialItems = <<>>
  /\ appendedItems = <<>>
  /\ firstCachePoint = 0
  /\ secondCachePoint = 0
  /\ window = NoWindowResult

(***************************************************************************)
(* Tool dispatch: the locals of one request of the for loop.               *)
(***************************************************************************)

\* let toolResult = '' and no error caught yet
NoToolResult == [e |-> "none", text |-> <<>>]

\* the messages of the errors the try block throws or lets through
ToolErrors == {"tool is not found", "invalid input", "handler error"}

\* a catch block that leaves the toolResult text empty
CatchToolErrorWithoutText(e) == [e |-> e, text |-> <<>>]

\* catch (e): toolResult = `Error occurred when using tool <name>: <message>`
CatchToolError(e) ==
  [e |-> e, text |-> <<"Error occurred when using tool", e>>]

\* toolResult = result of the handler, or the text of the MCP tool
ToolResultOf(result) == [e |-> "none", text |-> <<result>>]

(***************************************************************************)
(* The session title: generateSessionTitle and the update that follows.    *)
(***************************************************************************)
MaxTitleText == 16   \* characters of the title text the model returns
MaxPadding == 1      \* whitespace characters the model puts around it

(* ---- program constants ---- *)
maxTitleLength == 15 \* the length the prompt asks the model for

whitespace == {" ", "\n"}

RECURSIVE TrimStart(_)
TrimStart(s) ==
  IF Len(s) > 0 /\ Head(s) \in whitespace THEN TrimStart(Tail(s)) ELSE s

RECURSIVE TrimEnd(_)
TrimEnd(s) ==
  IF Len(s) > 0 /\ s[Len(s)] \in whitespace
    THEN TrimEnd(SubSeq(s, 1, Len(s) - 1)) ELSE s

\* String.prototype.trim
Trim(s) == TrimEnd(TrimStart(s))

\* texts the model may return for the title prompt: words of any length up
\* to the bound, with whitespace around them
TitleTexts ==
  {[i \in 1..n |-> IF i % 5 = 0 THEN " " ELSE "t"] : n \in 0..MaxTitleText}

Padding == {[i \in 1..n |-> c] : n \in 0..MaxPadding, c \in whitespace}

Outputs == {l \o t \o r : l \in Padding, t \in TitleTexts, r \in Padding}

\* generateSessionTitle: the trimmed text of the first content block, '' when
\* converse threw
generateSessionTitle(output, threw) ==
  IF threw THEN <<>> ELSE Trim(output)

NoTitleCall ==
  titleCall = [output |-> <<>>, threw |-> FALSE, title |-> <<>>]

(***************************************************************************)
(* The token ledger: trackTokenUsage (both clients have the same copy).    *)
(***************************************************************************)
MaxCalls == 2        \* calls of trackTokenUsage for one (workerId, modelId)

Usage(inputTokens, outputTokens, cacheRead, cacheWrite) ==
  [inputTokens |-> inputTokens, outputTokens |-> outputTokens,
   cacheReadInputTokens |-> cacheRead, cacheWriteInputTokens |-> cacheWrite]

\* response.usage of the responses
Usages == {Usage(10, 1, 0, 4), Usage(20, 2, 8, 0)}

NoUsage == Usage(0, 0, 0, 0)

\* the ledger item: its four counters
LedgerItem(exists, usage) ==
  [exists |-> exists,
   inputToken |-> usage.inputTokens,
   outputToken |-> usage.outputTokens,
   cacheReadInputTokens |-> usage.cacheReadInputTokens,
   cacheWriteInputTokens |-> usage.cacheWriteInputTokens]

NoItem == LedgerItem(FALSE, NoUsage)

\* UpdateCommand with 'ADD inputToken :inputTokens, ...': one atomic
\* increment of the four counters (ADD creates an absent item)
Add(item, usage) ==
  [exists |-> TRUE,
   inputToken |-> item.inputToken + usage.inputTokens,
   outputToken |-> item.outputToken + usage.outputTokens,
   cacheReadInputTokens |-> item.cacheReadInputTokens + usage.cacheReadInputTokens,
   cacheWriteInputTokens |->
     item.cacheWriteInputTokens + usage.cacheWriteInputTokens]

\* if (existingItem.Item) UpdateCommand ADD else PutCommand of a new item
Write(item, found, usage) ==
  IF found THEN Add(item, usage) ELSE LedgerItem(TRUE, usage)

Call(position, usage, found) ==
  [pc |-> position, usage |-> usage, found |-> found]

NoCall == Call("idle", NoUsage, FALSE)

NoLedger ==
  /\ ledger = NoItem
  /\ calls = [c \in 1..MaxCalls |-> NoCall]


(***************************************************************************)
(* The setup of agentLoop: the system prompt (a sequence of sections) and  *)
(* the tool catalog; and the lookup of a requested tool.                   *)
(***************************************************************************)
MaxAgentTools == 2   \* names in the tool list of an agent
MaxSections == 4     \* sections of a system prompt

\* the built-in tools, in the order of the list the filter runs over
BuiltInTools ==
  <<"ci", "cloneRepository", "createPR", "commandExecution", "reportProgress",
    "fileEdit", "sendImage", "getPRComments", "replyPRComment",
    "addIssueComment", "readImage", "todoInit", "todoUpdate">>

\* required tools
RequiredTools == {"reportProgress", "todoInit", "todoUpdate", "sendImage"}

\* getCustomAgent(...) ?? DefaultAgent: the tool list holds names of built-in
\* tools or other names; the MCP configuration serves "mcpTool" or nothing
CustomAgents ==
  [tools : {t \in SUBSET ({BuiltInTools[i] : i \in 1..Len(BuiltInTools)}
                            \cup {"unknownTool"}) :
              Cardinality(t) <= MaxAgentTools},
   mcp : BOOLEAN]

\* a catalog that keeps every built-in tool
KeepEveryTool(agent) == BuiltInTools

\* the filter of the built-in list: tools the agent lists, and the required
\* tools
FilterTools(agent) ==
  SelectSeq(BuiltInTools, LAMBDA t : t \in agent.tools \/ t \in RequiredTools)

\* toolConfig.tools: the specs of the kept tools, the MCP specs and the
\* cachePoint entry; undefined (no entry) when only the cachePoint is left
ToolConfig(ts, agent) ==
  LET entries == [i \in 1..Len(ts) |-> ToolSpecBlock(ts[i])]
                   \o (IF agent.mcp THEN <<ToolSpecBlock("mcpTool")>> ELSE <<>>)
                   \o <<CachePointBlock>>
  IN IF Len(entries) = 1 THEN <<>> ELSE entries

\* tryAppendCommonPrompt: the base prompt, followed by the common prompt if
\* the preferences hold one
tryAppendCommonPrompt(baseSystemPrompt, additionalSystemPrompt) ==
  IF additionalSystemPrompt
    THEN <<baseSystemPrompt, "## Common Prompt">>
    ELSE <<baseSystemPrompt>>

\* tryAppendRepositoryKnowledge: with a repoDirectory in the 'repo' metadata
\* and a knowledge file in it, the knowledge is appended to the prompt as it is
tryAppendRepositoryKnowledge(prompt, r) ==
  IF r = "knowledge" THEN Append(prompt, "## Repository Knowledge") ELSE prompt

NoAgent ==
  /\ customAgent = [tools |-> {}, mcp |-> FALSE]
  /\ tools = <<>>
  /\ toolUse = ""
  /\ systemPrompt = <<>>
  /\ repo = "none"

(***************************************************************************)
(* The session records of the store and their listing.                     *)
(***************************************************************************)
MaxSessions == 2     \* session records
MaxTime == 2         \* ticks of the clock

(* ---- program constants ---- *)
lsiWidth == 15       \* padStart(15, '0')

\* String(n).padStart(15, '0') of a natural number: its decimal digits after
\* as many zeros as are missing to the width
PadTimestamp(n) ==
  LET RECURSIVE String(_)
      String(k) ==
        LET digit == <<"0", "1", "2", "3", "4", "5", "6", "7", "8", "9">>[(k % 10) + 1]
        IN IF k < 10 THEN <<digit>> ELSE Append(String(k \div 10), digit)
      str == String(n)
  IN IF Len(str) >= lsiWidth THEN str
     ELSE [i \in 1..(lsiWidth - Len(str)) |-> "0"] \o str

\* a sort key order that tells no two keys apart
UnorderedKeys(a, b) == FALSE

\* the order of two strings of digits as sort key values: by character, a
\* proper prefix first
StringLess(a, b) ==
  LET code(ch) == CHOOSE k \in 0..9 :
                    <<"0", "1", "2", "3", "4", "5", "6", "7", "8", "9">>[k + 1] = ch
      RECURSIVE LessFrom(_)
      LessFrom(i) ==
        IF i > Min(Len(a), Len(b)) THEN Len(a) < Len(b)
        ELSE IF a[i] = b[i] THEN LessFrom(i + 1)
        ELSE code(a[i]) < code(b[i])
  IN LessFrom(1)

NoSessions ==
  /\ sessions = [w \in 1..MaxSessions |-> [exists |-> FALSE]]
  /\ listing = [called |-> FALSE]
  /\ now = 0

Init ==
  /\ log = <<>>
  /\ agentStatus = "pending"
  /\ title = ""
  /\ pc = "idle"
  /\ isCancelled = FALSE
  /\ completeCancelCount = 0
  /\ res = None
  /\ toolIdx = 0
  /\ toolResultMessage = <<>>
  /\ attemptCount = 0
  /\ maxTokensExceededCount = 0
  /\ currentAccountIndex = 0
  /\ awsAccounts \in 1..MaxAccounts
  /\ LLM_PROVIDER \in {"bedrock", "anthropic"}
  /\ events = <<>>
  /\ error = "none"
  /\ turns = 0
  /\ cancelledAt = "none"
  /\ toolResult = NoToolResult
  /\ historyLen = 0
  /\ NoConverse
  /\ NoWindow
  /\ NoTitleCall
  /\ NoLedger
  /\ NoAgent
  /\ NoSessions


(* ---- out-of-band inputs ---- *)

\* a user message arrives and is appended to the log (the session is waiting)
UserMessage ==
  /\ pc = "idle"
  /\ Len(log) + 1 < MaxLog
  /\ log' = Append(log, UserMessageItem)
  /\ UNCHANGED <<agentStatus, title, pc, isCancelled, completeCancelCount, res,
                 toolIdx, toolResultMessage, attemptCount, maxTokensExceededCount,
                 currentAccountIndex, awsAccounts, LLM_PROVIDER, events, error,
                 turns, cancelledAt>>
  /\ UNCHANGED <<toolResult, historyLen, sideVars>>

\* the part of the turn a position belongs to: the LLM call in flight, a tool
\* handler running, the status write after the finally block has read the
\* token, or any other await
CancelPoint(p) ==
  IF p = "calling" THEN "inFlight"
  ELSE IF p = "toolRunning" THEN "midTool"
  ELSE IF p = "updatingStatus" THEN "afterFinally"
  ELSE "inTurn"

\* cancellationToken.cancel(): the out-of-band command sets the token while a
\* turn is running, at any await of the turn
Cancel ==
  /\ pc \notin {"idle", "resume", "done"}
  /\ ~isCancelled
  /\ isCancelled' = TRUE
  /\ cancelledAt' = CancelPoint(pc)
  /\ UNCHANGED <<log, agentStatus, title, pc, completeCancelCount, res, toolIdx,
                 toolResultMessage, attemptCount, maxTokensExceededCount,
                 currentAccountIndex, awsAccounts, LLM_PROVIDER, events, error,
                 turns>>
  /\ UNCHANGED <<toolResult, historyLen, sideVars>>

(* ---- entry points ---- *)

\* an onMessageReceived that starts agentLoop without the status write
StartTurnKeepingStatus ==
  /\ pc' = "entry"
  /\ turns' = turns + 1
  /\ UNCHANGED <<log, agentStatus, title, isCancelled, completeCancelCount, res,
                 toolIdx, toolResultMessage, attemptCount, maxTokensExceededCount,
                 currentAccountIndex, awsAccounts, LLM_PROVIDER, events, error,
                 cancelledAt>>
  /\ UNCHANGED <<toolResult, historyLen, sideVars>>

\* onMessageReceived up to its first await: status := 'working', then agentLoop
\* starts
StartTurn ==
  /\ agentStatus' = "working"
  /\ pc' = "entry"
  /\ turns' = turns + 1
  /\ UNCHANGED <<log, title, isCancelled, completeCancelCount, res, toolIdx,
                 toolResultMessage, attemptCount, maxTokensExceededCount,
                 currentAccountIndex, awsAccounts, LLM_PROVIDER, events, error,
                 cancelledAt>>
  /\ UNCHANGED <<toolResult, historyLen, sideVars>>

\* the trigger of a turn: the latest item is a userMessage or a toolResult
OnMessageReceived ==
  /\ pc = "idle"
  /\ turns < MaxTurns
  /\ LastMessageType(log) \in {"userMessage", "toolResult"}
  /\ StartTurn

\* resume's condition on the last item of the history
ShouldResumeOnlyUserMessage(items) == LastMessageType(items) = "userMessage"

ShouldResumeAnyItem(items) == LastMessageType(items) # "undefined"

ShouldResume(items) == LastMessageType(items) \in {"userMessage", "toolResult"}

\* resume is called: getConversationHistory is awaited
Resume ==
  /\ pc = "idle"
  /\ ShouldResume(log) => turns < MaxTurns
  /\ pc' = "resume"
  /\ UNCHANGED <<log, agentStatus, title, isCancelled, completeCancelCount, res,
                 toolIdx, toolResultMessage, attemptCount, maxTokensExceededCount,
                 currentAccountIndex, awsAccounts, LLM_PROVIDER, events, error,
                 turns, cancelledAt>>
  /\ UNCHANGED <<toolResult, historyLen, sideVars>>

\* resume with the history read: one turn, or return
ResumeDecide ==
  /\ pc = "resume"
  /\ IF ShouldResume(log)
       THEN StartTurn
       ELSE /\ pc' = "idle"
            /\ UNCHANGED <<log, agentStatus, title, isCancelled,
                           completeCancelCount, res, toolIdx, toolResultMessage,
                           attemptCount, maxTokensExceededCount,
                           currentAccountIndex, awsAccounts, LLM_PROVIDER, events,
                           error, turns, cancelledAt, toolResult, historyLen,
                           sideVars>>

(* ---- agentLoop ---- *)

\* session, custom agent, preferences, history, system prompt, tool catalog and
\* the initial middle-out window are loaded; nothing of the session is written
LoadHistory ==
  /\ pc = "entry"
  /\ pc' = "loopTop"
  /\ UNCHANGED <<log, agentStatus, title, isCancelled, completeCancelCount, res,
                 toolIdx, toolResultMessage, attemptCount, maxTokensExceededCount,
                 currentAccountIndex, awsAccounts, LLM_PROVIDER, events, error,
                 turns, cancelledAt>>
  /\ historyLen' = Len(log)
  /\ UNCHANGED <<toolResult, sideVars>>

\* top of while (true): break on cancellation, else build the window and start
\* a pRetry wrapper around converse
LoopTop ==
  /\ pc = "loopTop"
  /\ IF isCancelled
       THEN pc' = "afterLoop" /\ UNCHANGED attemptCount
       ELSE pc' = "invoke" /\ attemptCount' = 1
  /\ UNCHANGED <<log, agentStatus, title, isCancelled, completeCancelCount, res,
                 toolIdx, toolResultMessage, maxTokensExceededCount,
                 currentAccountIndex, awsAccounts, LLM_PROVIDER, events, error,
                 turns, cancelledAt>>
  /\ UNCHANGED <<toolResult, historyLen, sideVars>>

\* what the catch block of the wrapper does with a thrown error e
CatchRetriesError(e) ==
  IF e \in {"ThrottlingException", "MaxTokenExceededError", "Error"}
    THEN "retry" ELSE "abort"

Catch(e) ==
  IF e = "ThrottlingException" THEN "retry"
  ELSE IF e = "MaxTokenExceededError" THEN "retry"
  ELSE "abort"

\* the class of the error a throttled provider call raises
ThrottlingErrorOf(provider) ==
  IF provider = "bedrock" THEN "ThrottlingException" ELSE "RateLimitError"

IsThrottling(e) == e \in {"ThrottlingException", "RateLimitError"}

\* pRetry after an attempt threw e: run again while retries remain and the
\* error is not an AbortError, else reject with e (agentLoop rejects with it)
Throw(e) ==
  /\ error' = e
  /\ IF Catch(e) = "retry" /\ attemptCount <= MaxRetries
       THEN /\ attemptCount' = attemptCount + 1
            /\ pc' = "invoke"
       ELSE /\ pc' = "finally"
            /\ attemptCount' = 0

\* a wrapper whose attempts never look at maxTokensExceededCount
AttemptWithoutLimit ==
  /\ pc = "invoke"
  /\ IF isCancelled
       THEN /\ pc' = "afterLoop"
            /\ attemptCount' = 0
            /\ error' = "none"
       ELSE /\ pc' = "calling"
            /\ error' = "none"
            /\ UNCHANGED attemptCount
  /\ UNCHANGED <<log, agentStatus, title, isCancelled, completeCancelCount, res,
                 toolIdx, toolResultMessage, maxTokensExceededCount,
                 currentAccountIndex, awsAccounts, LLM_PROVIDER, events, turns, cancelledAt>>
  /\ UNCHANGED <<toolResult, historyLen, sideVars>>

\* one attempt of the wrapper, up to the provider call
Attempt ==
  /\ pc = "invoke"
  /\ IF isCancelled
       THEN \* return undefined; if (!res) break
            /\ pc' = "afterLoop"
            /\ attemptCount' = 0
            /\ error' = "none"
       ELSE IF maxTokensExceededCount > maxTokensExceededLimit
         THEN Throw("Error")
         ELSE /\ pc' = "calling"
              /\ error' = "none"
              /\ UNCHANGED attemptCount
  /\ UNCHANGED <<log, agentStatus, title, isCancelled, completeCancelCount, res,
                 toolIdx, toolResultMessage, maxTokensExceededCount,
                 currentAccountIndex, awsAccounts, LLM_PROVIDER, events, turns, cancelledAt>>
  /\ UNCHANGED <<toolResult, historyLen, sideVars>>

\* a catch block that keeps the account
RotateAccountNever(e) == UNCHANGED currentAccountIndex

\* bedrockConverse's catch: a ThrottlingException rotates the account
RotateAccount(e) ==
  IF e = "ThrottlingException"
    THEN currentAccountIndex' = (currentAccountIndex + 1) % awsAccounts
    ELSE UNCHANGED currentAccountIndex

\* the provider call fails
CallThrows ==
  /\ pc = "calling"
  /\ \E e \in {ThrottlingErrorOf(LLM_PROVIDER), "Error"} :
       /\ RotateAccount(e)
       /\ Throw(e)
  /\ UNCHANGED <<log, agentStatus, title, isCancelled, completeCancelCount, res,
                 toolIdx, toolResultMessage, maxTokensExceededCount, awsAccounts,
                 LLM_PROVIDER, events, turns, cancelledAt>>
  /\ UNCHANGED <<toolResult, historyLen, sideVars>>

\* the provider call returns a response
CallReturns ==
  /\ pc = "calling"
  /\ \E r \in Responses(Len(log)) :
       IF r.stopReason = "max_tokens"
         THEN /\ maxTokensExceededCount' = maxTokensExceededCount + 1
              /\ Throw("MaxTokenExceededError")
              /\ UNCHANGED res
         ELSE /\ r.stopReason = "tool_use" => Len(log) + 2 < MaxLog
              /\ res' = r
              /\ pc' = "gotRes"
              /\ attemptCount' = 0
              /\ UNCHANGED <<maxTokensExceededCount, error>>
  /\ UNCHANGED <<log, agentStatus, title, isCancelled, completeCancelCount,
                 toolIdx, toolResultMessage, currentAccountIndex, awsAccounts,
                 LLM_PROVIDER, events, turns, cancelledAt>>
  /\ UNCHANGED <<toolResult, historyLen, sideVars>>


\* after a response: token count of the last user item, session cost; then the
\* branch on stopReason
AfterResponse ==
  /\ pc = "gotRes"
  /\ IF res.stopReason = "tool_use"
       THEN /\ pc' = "toolUseEvent"
            /\ toolIdx' = 1
            /\ toolResultMessage' = <<>>
       ELSE /\ pc' = "final"
            /\ UNCHANGED <<toolIdx, toolResultMessage>>
  /\ UNCHANGED <<log, agentStatus, title, isCancelled, completeCancelCount, res,
                 attemptCount, maxTokensExceededCount, currentAccountIndex,
                 awsAccounts, LLM_PROVIDER, events, error, turns,
                 cancelledAt>>
  /\ UNCHANGED <<toolResult, historyLen, sideVars>>

(* ---- tool dispatch: for (const request of toolUseRequests) ---- *)

\* sendWebappEvent({ type: 'toolUse', ... }) for the current request
SendToolUseEvent ==
  /\ pc = "toolUseEvent"
  /\ events' = Append(events, Event("toolUse", res.toolUseIds[toolIdx]))
  /\ pc' = "toolExec"
  /\ UNCHANGED <<log, agentStatus, title, isCancelled, completeCancelCount, res,
                 toolIdx, toolResultMessage, attemptCount, maxTokensExceededCount,
                 currentAccountIndex, awsAccounts, LLM_PROVIDER, error, turns, cancelledAt>>
  /\ UNCHANGED <<toolResult, historyLen, sideVars>>

\* a loop that puts the newest toolResult block first
PushToolResultFirst(failed) ==
  toolResultMessage' = <<res.toolUseIds[toolIdx]>> \o toolResultMessage

\* a loop that pushes no toolResult block for a tool that failed
PushToolResultUnlessFailed(failed) ==
  IF failed
    THEN UNCHANGED toolResultMessage
    ELSE toolResultMessage' = Append(toolResultMessage, res.toolUseIds[toolIdx])

\* the toolResult block pushed for the current request: the tool's result, or
\* the error text when the tool failed (the catch block)
PushToolResult(failed) ==
  toolResultMessage' = Append(toolResultMessage, res.toolUseIds[toolIdx])

\* the tool is looked up: an MCP tool or a built-in tool with valid input is
\* invoked ("toolRunning"); an unknown tool or invalid input throws at once and
\* the catch block turns it into an error text
ExecuteTool ==
  /\ pc = "toolExec"
  /\ \E kind \in {"mcp", "builtin", "notFound", "invalidInput"} :
       IF kind \in {"mcp", "builtin"}
         THEN pc' = "toolRunning" /\ UNCHANGED <<toolResultMessage, toolResult>>
         ELSE /\ toolResult' = CatchToolError(IF kind = "notFound"
                                                THEN "tool is not found"
                                                ELSE "invalid input")
              /\ PushToolResult(TRUE)
              /\ pc' = "toolResultEvent"
  /\ UNCHANGED <<log, agentStatus, title, isCancelled, completeCancelCount, res,
                 toolIdx, attemptCount, maxTokensExceededCount,
                 currentAccountIndex, awsAccounts, LLM_PROVIDER, events, error,
                 turns, cancelledAt>>
  /\ UNCHANGED <<historyLen, sideVars>>

\* the handler (or the MCP call) returns or throws; a throw is caught and
\* becomes the error text of the toolResult
ToolReturns ==
  /\ pc = "toolRunning"
  /\ \E outcome \in {"result", "throws"} :
       /\ toolResult' = IF outcome = "throws"
                           THEN CatchToolError("handler error")
                           ELSE ToolResultOf("result")
       /\ PushToolResult(outcome = "throws")
       /\ pc' = "toolResultEvent"
  /\ UNCHANGED <<log, agentStatus, title, isCancelled, completeCancelCount, res,
                 toolIdx, attemptCount, maxTokensExceededCount,
                 currentAccountIndex, awsAccounts, LLM_PROVIDER, events, error,
                 turns, cancelledAt>>
  /\ UNCHANGED <<historyLen, sideVars>>

\* a loop that publishes no toolResult event
SendNoToolResultEvent ==
  /\ pc = "toolResultEvent"
  /\ IF toolIdx < Len(res.toolUseIds)
       THEN pc' = "toolUseEvent" /\ toolIdx' = toolIdx + 1
       ELSE pc' = "savePair" /\ UNCHANGED toolIdx
  /\ UNCHANGED <<log, agentStatus, title, isCancelled, completeCancelCount, res,
                 toolResultMessage, attemptCount, maxTokensExceededCount,
                 currentAccountIndex, awsAccounts, LLM_PROVIDER, events, error,
                 turns, cancelledAt>>
  /\ toolResult' = NoToolResult
  /\ UNCHANGED <<historyLen, sideVars>>

\* sendWebappEvent({ type: 'toolResult', ... }), then the next request or the
\* end of the for loop
SendToolResultEvent ==
  /\ pc = "toolResultEvent"
  /\ events' = Append(events, Event("toolResult", res.toolUseIds[toolIdx]))
  /\ IF toolIdx < Len(res.toolUseIds)
       THEN pc' = "toolUseEvent" /\ toolIdx' = toolIdx + 1
       ELSE pc' = "savePair" /\ UNCHANGED toolIdx
  /\ UNCHANGED <<log, agentStatus, title, isCancelled, completeCancelCount, res,
                 toolResultMessage, attemptCount, maxTokensExceededCount,
                 currentAccountIndex, awsAccounts, LLM_PROVIDER, error, turns, cancelledAt>>
  /\ toolResult' = NoToolResult
  /\ UNCHANGED <<historyLen, sideVars>>

\* saveConversationHistoryAtomic: one transaction writes the toolUse item and
\* the toolResult item at consecutive sort keys
SaveConversationHistoryAtomic(toolUseMessage, toolResultMsg) ==
  log' = log \o <<ToolUseItem(toolUseMessage), ToolResultItem(toolResultMsg)>>

SavePair ==
  /\ pc = "savePair"
  /\ SaveConversationHistoryAtomic(res.toolUseIds, toolResultMessage)
  /\ pc' = "loopTop"
  /\ res' = None
  /\ toolIdx' = 0
  /\ toolResultMessage' = <<>>
  /\ UNCHANGED <<agentStatus, title, isCancelled, completeCancelCount,
                 attemptCount, maxTokensExceededCount, currentAccountIndex,
                 awsAccounts, LLM_PROVIDER, events, error, turns, cancelledAt>>
  /\ UNCHANGED <<toolResult, historyLen, sideVars>>

(* ---- final response ---- *)

\* a loop that saves the final message whatever its content
FinalizeSavingEmpty ==
  /\ pc = "final"
  /\ log' = Append(log, AssistantResponseItem)
  /\ pc' = "sendFinal"
  /\ res' = None
  /\ UNCHANGED <<agentStatus, title, isCancelled, completeCancelCount, events,
                 toolIdx, toolResultMessage, attemptCount, maxTokensExceededCount,
                 currentAccountIndex, awsAccounts, LLM_PROVIDER, error, turns, cancelledAt>>
  /\ UNCHANGED <<toolResult, historyLen, sideVars>>

\* a loop that sends the final message without saving it
FinalizeWithoutSaving ==
  /\ pc = "final"
  /\ IF ~res.hasContent
       THEN /\ events' = Append(events, Event("message", <<>>))
            /\ pc' = "afterLoop"
       ELSE /\ pc' = "sendFinal"
            /\ UNCHANGED events
  /\ res' = None
  /\ UNCHANGED <<log, agentStatus, title, isCancelled, completeCancelCount,
                 toolIdx, toolResultMessage, attemptCount, maxTokensExceededCount,
                 currentAccountIndex, awsAccounts, LLM_PROVIDER, error, turns, cancelledAt>>
  /\ UNCHANGED <<toolResult, historyLen, sideVars>>

\* empty content: a placeholder system message and break; else the assistant
\* message is saved first
Finalize ==
  /\ pc = "final"
  /\ IF ~res.hasContent
       THEN /\ events' = Append(events, Event("message", <<>>))
            /\ pc' = "afterLoop"
            /\ UNCHANGED log
       ELSE /\ log' = Append(log, AssistantResponseItem)
            /\ pc' = "sendFinal"
            /\ UNCHANGED events
  /\ res' = None
  /\ UNCHANGED <<agentStatus, title, isCancelled, completeCancelCount,
                 toolIdx, toolResultMessage, attemptCount, maxTokensExceededCount,
                 currentAccountIndex, awsAccounts, LLM_PROVIDER, error, turns, cancelledAt>>
  /\ UNCHANGED <<toolResult, historyLen, sideVars>>

\* sendSystemMessage(workerId, mention + responseText): the final message event
SendFinalMessage ==
  /\ pc = "sendFinal"
  /\ events' = Append(events, Event("message", <<>>))
  /\ pc' = "afterLoop"
  /\ UNCHANGED <<log, agentStatus, title, isCancelled, completeCancelCount, res,
                 toolIdx, toolResultMessage, attemptCount, maxTokensExceededCount,
                 currentAccountIndex, awsAccounts, LLM_PROVIDER, error, turns, cancelledAt>>
  /\ UNCHANGED <<toolResult, historyLen, sideVars>>

(* ---- after the loop: session title ---- *)

\* getSession; conversation always holds the "User: ..." line, so the title
\* is generated whenever the session has none
AfterLoop ==
  /\ pc = "afterLoop"
  /\ pc' = IF title = "" THEN "titleGen" ELSE "finally"
  /\ UNCHANGED <<log, agentStatus, title, isCancelled, completeCancelCount, res,
                 toolIdx, toolResultMessage, attemptCount, maxTokensExceededCount,
                 currentAccountIndex, awsAccounts, LLM_PROVIDER, events, error,
                 turns, cancelledAt>>
  /\ UNCHANGED <<toolResult, historyLen, sideVars>>

\* generateSessionTitle returns t ("" when the call failed or the text was
\* empty); a non-empty title is stored and announced
GenerateTitle ==
  /\ pc = "titleGen"
  /\ \E t \in {"", "title"} :
       IF t # ""
         THEN /\ title' = t
              /\ events' = Append(events, Event("sessionTitleUpdate", <<>>))
         ELSE UNCHANGED <<title, events>>
  /\ pc' = "finally"
  /\ UNCHANGED <<log, agentStatus, isCancelled, completeCancelCount, res,
                 toolIdx, toolResultMessage, attemptCount, maxTokensExceededCount,
                 currentAccountIndex, awsAccounts, LLM_PROVIDER, error, turns, cancelledAt>>
  /\ UNCHANGED <<toolResult, historyLen, sideVars>>

(* ---- onMessageReceived: finally ---- *)

\* a finally block that writes 'pending' without reading the token
FinallyAlwaysPending ==
  /\ pc = "finally"
  /\ pc' = "updatingStatus"
  /\ UNCHANGED <<log, agentStatus, title, isCancelled, completeCancelCount, res,
                 toolIdx, toolResultMessage, attemptCount, maxTokensExceededCount,
                 currentAccountIndex, awsAccounts, LLM_PROVIDER, events, error,
                 turns, cancelledAt>>
  /\ UNCHANGED <<toolResult, historyLen, sideVars>>

\* a status write placed after the call of agentLoop instead of in finally:
\* it is skipped when agentLoop rejects
FinallySkippedOnError ==
  /\ pc = "finally"
  /\ IF isCancelled
       THEN /\ completeCancelCount' = completeCancelCount + 1
            /\ pc' = "done"
       ELSE /\ pc' = IF error = "none" THEN "updatingStatus" ELSE "done"
            /\ UNCHANGED completeCancelCount
  /\ UNCHANGED <<log, agentStatus, title, isCancelled, res, toolIdx,
                 toolResultMessage, attemptCount, maxTokensExceededCount,
                 currentAccountIndex, awsAccounts, LLM_PROVIDER, events, error,
                 turns, cancelledAt>>
  /\ UNCHANGED <<toolResult, historyLen, sideVars>>

\* the finally block: a cancelled turn completes the cancellation and leaves
\* the status alone, any other turn goes on to write 'pending'
Finally ==
  /\ pc = "finally"
  /\ IF isCancelled
       THEN /\ completeCancelCount' = completeCancelCount + 1
            /\ pc' = "done"
       ELSE /\ pc' = "updatingStatus"
            /\ UNCHANGED completeCancelCount
  /\ UNCHANGED <<log, agentStatus, title, isCancelled, res, toolIdx,
                 toolResultMessage, attemptCount, maxTokensExceededCount,
                 currentAccountIndex, awsAccounts, LLM_PROVIDER, events, error,
                 turns, cancelledAt>>
  /\ UNCHANGED <<toolResult, historyLen, sideVars>>

\* updateAgentStatusWithEvent(workerId, 'pending') completes
UpdateStatusPending ==
  /\ pc = "updatingStatus"
  /\ agentStatus' = "pending"
  /\ pc' = "done"
  /\ UNCHANGED <<log, title, isCancelled, completeCancelCount, res, toolIdx,
                 toolResultMessage, attemptCount, maxTokensExceededCount,
                 currentAccountIndex, awsAccounts, LLM_PROVIDER, events, error,
                 turns, cancelledAt>>
  /\ UNCHANGED <<toolResult, historyLen, sideVars>>

\* onMessageReceived returns (or rejects with error); its locals and the token
\* of this call are gone
Return ==
  /\ pc = "done"
  /\ pc' = "idle"
  /\ isCancelled' = FALSE
  /\ completeCancelCount' = 0
  /\ cancelledAt' = "none"
  /\ events' = <<>>
  /\ error' = "none"
  /\ maxTokensExceededCount' = 0
  /\ UNCHANGED <<log, agentStatus, title, res, toolIdx, toolResultMessage,
                 attemptCount, currentAccountIndex, awsAccounts, LLM_PROVIDER,
                 turns>>
  /\ historyLen' = 0
  /\ UNCHANGED <<toolResult, sideVars>>

Next ==
  \/ UserMessage
  \/ Cancel
  \/ OnMessageReceived
  \/ Resume
  \/ ResumeDecide
  \/ LoadHistory
  \/ LoopTop
  \/ Attempt
  \/ CallThrows
  \/ CallReturns
  \/ AfterResponse
  \/ SendToolUseEvent
  \/ ExecuteTool
  \/ ToolReturns
  \/ SendToolResultEvent
  \/ SavePair
  \/ Finalize
  \/ SendFinalMessage
  \/ AfterLoop
  \/ GenerateTitle
  \/ Finally
  \/ UpdateStatusPending
  \/ Return

Spec == Init /\ [][Next]_vars

\* the steps of a call of onMessageReceived or resume: each is one awaited
\* call of the turn returning
TurnStep ==
  \/ ResumeDecide
  \/ LoadHistory
  \/ LoopTop
  \/ Attempt
  \/ CallThrows
  \/ CallReturns
  \/ AfterResponse
  \/ SendToolUseEvent
  \/ ExecuteTool
  \/ ToolReturns
  \/ SendToolResultEvent
  \/ SavePair
  \/ Finalize
  \/ SendFinalMessage
  \/ AfterLoop
  \/ GenerateTitle
  \/ Finally
  \/ UpdateStatusPending
  \/ Return

\* the session when the token is never set
NextUncancelled ==
  \/ UserMessage
  \/ OnMessageReceived
  \/ Resume
  \/ TurnStep

\* every awaited call of a turn returns: the provider, the tool handlers, the
\* store and the event calls
SpecTerminating == Init /\ [][NextUncancelled]_vars /\ WF_vars(TurnStep)


(***************************************************************************)
(* One call of converse on any input: the request each provider path       *)
(* builds.                                                                 *)
(***************************************************************************)

InitConverse ==
  /\ log = <<>>
  /\ agentStatus = "working"
  /\ title = ""
  /\ pc = "converse"
  /\ isCancelled = FALSE
  /\ completeCancelCount = 0
  /\ res = None
  /\ toolIdx = 0
  /\ toolResultMessage = <<>>
  /\ attemptCount = 1
  /\ maxTokensExceededCount \in 0..(maxTokensExceededLimit + 1)
  /\ currentAccountIndex = 0
  /\ awsAccounts = 1
  /\ LLM_PROVIDER \in {"bedrock", "anthropic"}
  /\ events = <<>>
  /\ error = "none"
  /\ turns = 1
  /\ cancelledAt = "none"
  /\ modelConfig \in ModelConfigs
  /\ input \in Inputs
  /\ request = NoRequest
  /\ toolResult = NoToolResult
  /\ historyLen = 0
  /\ NoWindow
  /\ NoTitleCall
  /\ NoLedger
  /\ NoAgent
  /\ NoSessions

\* both paths: more than 5 max_tokens stops throw before any request is built
TooManyMaxTokens ==
  /\ pc = "converse"
  /\ maxTokensExceededCount > maxTokensExceededLimit
  /\ error' = "Error"
  /\ pc' = "thrown"
  /\ UNCHANGED <<log, agentStatus, title, isCancelled, completeCancelCount, res,
                 toolIdx, toolResultMessage, attemptCount, maxTokensExceededCount,
                 currentAccountIndex, awsAccounts, LLM_PROVIDER, events, turns,
                 cancelledAt, toolResult, historyLen, sideVars>>

\* bedrockConverse up to client.send(command)
BedrockConverse ==
  /\ pc = "converse"
  /\ LLM_PROVIDER = "bedrock"
  /\ maxTokensExceededCount <= maxTokensExceededLimit
  /\ request' = preProcessInput(input, modelConfig, maxTokensExceededCount)
  /\ pc' = "sent"
  /\ UNCHANGED <<log, agentStatus, title, isCancelled, completeCancelCount, res,
                 toolIdx, toolResultMessage, attemptCount, maxTokensExceededCount,
                 currentAccountIndex, awsAccounts, LLM_PROVIDER, events, error,
                 turns, cancelledAt, toolResult, historyLen, modelConfig,
                 input, contextVars, titleVars, ledgerVars, agentVars, sessionVars>>

\* anthropicConverse up to client.messages.create(requestParams)
AnthropicConverse ==
  /\ pc = "converse"
  /\ LLM_PROVIDER = "anthropic"
  /\ maxTokensExceededCount <= maxTokensExceededLimit
  /\ request' = convertToAnthropicFormat(input, modelConfig)
  /\ pc' = "sent"
  /\ UNCHANGED <<log, agentStatus, title, isCancelled, completeCancelCount, res,
                 toolIdx, toolResultMessage, attemptCount, maxTokensExceededCount,
                 currentAccountIndex, awsAccounts, LLM_PROVIDER, events, error,
                 turns, cancelledAt, toolResult, historyLen, modelConfig,
                 input, contextVars, titleVars, ledgerVars, agentVars, sessionVars>>

NextConverse ==
  \/ TooManyMaxTokens
  \/ BedrockConverse
  \/ AnthropicConverse

SpecConverse == InitConverse /\ [][NextConverse]_vars

(***************************************************************************)
(* The window of one turn: agentLoop from the initial middle-out to the    *)
(* end of its loop, with the token counts of the items.                    *)
(***************************************************************************)

InitContext ==
  /\ log = <<>>
  /\ agentStatus = "working"
  /\ title = ""
  /\ pc = "entry"
  /\ isCancelled = FALSE
  /\ completeCancelCount = 0
  /\ res = None
  /\ toolIdx = 0
  /\ toolResultMessage = <<>>
  /\ attemptCount = 0
  /\ maxTokensExceededCount = 0
  /\ currentAccountIndex = 0
  /\ awsAccounts = 1
  /\ LLM_PROVIDER = "bedrock"
  /\ events = <<>>
  /\ error = "none"
  /\ turns = 1
  /\ cancelledAt = "none"
  /\ toolResult = NoToolResult
  /\ historyLen = 0
  /\ NoConverse
  /\ NoTitleCall
  /\ NoLedger
  /\ NoAgent
  /\ NoSessions
  /\ allItems \in Histories
  /\ initialItems = <<>>
  /\ appendedItems = <<>>
  /\ firstCachePoint = 0
  /\ secondCachePoint = 0
  /\ window = NoWindowResult

\* const { items: initialItems } = await middleOutFiltering(allItems) and the
\* first values of the cache points
FilterHistory ==
  /\ pc = "entry"
  /\ initialItems' \in middleOutFiltering(allItems)
  /\ firstCachePoint' = IF Len(initialItems') > 2
                          THEN Len(initialItems') - 3 ELSE Len(initialItems') - 1
  /\ secondCachePoint' = 0
  /\ appendedItems' = <<>>
  /\ pc' = "loopTop"
  /\ UNCHANGED <<log, agentStatus, title, isCancelled, completeCancelCount, res,
                 toolIdx, toolResultMessage, attemptCount, maxTokensExceededCount,
                 currentAccountIndex, awsAccounts, LLM_PROVIDER, events, error,
                 turns, cancelledAt, toolResult, historyLen, clientVars,
                 titleVars, ledgerVars, agentVars,
                 sessionVars, allItems, window>>

\* the messages of a filter result with a cachePoint block appended to the
\* messages at the (0-based) indexes that exist
Messages(items, cachePoints) ==
  [i \in 1..Len(items) |->
     [messageType |-> items[i].messageType, role |-> items[i].role,
      cachePoint |-> (i - 1) \in cachePoints]]

\* top of the loop up to the call of converse: the items of the turn are
\* summed, filtered and given their cache points
BuildWindow ==
  /\ pc = "loopTop"
  /\ LET items == initialItems \o appendedItems
         filter == ChooseFiltering(items)
     IN \E result \in IF filter = "middleOut"
                        THEN middleOutFiltering(items) ELSE noOpFiltering(items) :
          LET first == IF filter = "middleOut" THEN Len(result) - 1 ELSE firstCachePoint
              second == Len(result) - 1
          IN /\ window' = [filter |-> filter,
                           messages |-> Messages(result, {first, second}),
                           totalTokenCount |-> TotalTokenCount(result)]
             /\ secondCachePoint' = second
             /\ firstCachePoint' = second
  /\ pc' = "calling"
  /\ UNCHANGED <<log, agentStatus, title, isCancelled, completeCancelCount, res,
                 toolIdx, toolResultMessage, attemptCount, maxTokensExceededCount,
                 currentAccountIndex, awsAccounts, LLM_PROVIDER, events, error,
                 turns, cancelledAt, toolResult, historyLen, clientVars,
                 titleVars, ledgerVars, agentVars,
                 sessionVars, allItems, initialItems,
                 appendedItems>>

\* lastItem.tokenCount = tokenCount: the last item of the turn (a user-role
\* item) gets the billed input tokens that the window did not account for
UpdateLastTokenCount(tokenCount) ==
  IF Len(appendedItems) > 0
    THEN /\ appendedItems' = [appendedItems EXCEPT ![Len(appendedItems)].tokenCount =
                                tokenCount]
         /\ UNCHANGED initialItems
    ELSE /\ initialItems' = [initialItems EXCEPT ![Len(initialItems)].tokenCount =
                               tokenCount]
         /\ UNCHANGED appendedItems

\* a tool_use response: the token count of the last item is updated, the
\* tools run and the saved pair is pushed to appendedItems
ToolUseResponse ==
  /\ pc = "calling"
  /\ Len(appendedItems) + 2 <= 2 * MaxAppendedPairs
  /\ \E billed \in BilledTokens, outputTokenCount \in OutputTokenCounts :
       LET tokenCount == TokenCountOf(billed, window.totalTokenCount)
       IN /\ tokenCount <= MaxItemTokens
          /\ res' = Response("tool_use", billed, outputTokenCount)
          /\ IF Len(appendedItems) > 0
               THEN /\ appendedItems' =
                         [appendedItems EXCEPT
                            ![Len(appendedItems)].tokenCount = tokenCount]
                           \o <<TokenItem("toolUse", outputTokenCount),
                                TokenItem("toolResult", 0)>>
                    /\ UNCHANGED initialItems
               ELSE /\ initialItems' =
                         [initialItems EXCEPT
                            ![Len(initialItems)].tokenCount = tokenCount]
                    /\ appendedItems' =
                         <<TokenItem("toolUse", outputTokenCount),
                           TokenItem("toolResult", 0)>>
  /\ pc' = "loopTop"
  /\ UNCHANGED <<log, agentStatus, title, isCancelled, completeCancelCount,
                 toolIdx, toolResultMessage, attemptCount, maxTokensExceededCount,
                 currentAccountIndex, awsAccounts, LLM_PROVIDER, events, error,
                 turns, cancelledAt, toolResult, historyLen, clientVars,
                 titleVars, ledgerVars, agentVars,
                 sessionVars, allItems, firstCachePoint,
                 secondCachePoint, window>>

\* any other response: the token count of the last item is updated and the
\* loop is left
FinalResponse ==
  /\ pc = "calling"
  /\ \E billed \in BilledTokens :
       LET tokenCount == TokenCountOf(billed, window.totalTokenCount)
       IN /\ tokenCount <= MaxItemTokens
          /\ res' = Response("end_turn", billed, 0)
          /\ UpdateLastTokenCount(tokenCount)
  /\ pc' = "afterLoop"
  /\ UNCHANGED <<log, agentStatus, title, isCancelled, completeCancelCount,
                 toolIdx, toolResultMessage, attemptCount, maxTokensExceededCount,
                 currentAccountIndex, awsAccounts, LLM_PROVIDER, events, error,
                 turns, cancelledAt, toolResult, historyLen, clientVars,
                 titleVars, ledgerVars, agentVars,
                 sessionVars, allItems, firstCachePoint,
                 secondCachePoint, window>>

NextContext ==
  \/ FilterHistory
  \/ BuildWindow
  \/ ToolUseResponse
  \/ FinalResponse

SpecContext == InitContext /\ [][NextContext]_vars


(***************************************************************************)
(* The title of a session: one call of generateSessionTitle on any model   *)
(* output, and the update of the session that agentLoop makes with it.     *)
(***************************************************************************)

InitTitle ==
  /\ log = <<>>
  /\ agentStatus = "working"
  /\ isCancelled = FALSE
  /\ completeCancelCount = 0
  /\ res = None
  /\ toolIdx = 0
  /\ toolResultMessage = <<>>
  /\ attemptCount = 0
  /\ maxTokensExceededCount = 0
  /\ currentAccountIndex = 0
  /\ awsAccounts = 1
  /\ LLM_PROVIDER = "bedrock"
  /\ events = <<>>
  /\ error = "none"
  /\ turns = 1
  /\ cancelledAt = "none"
  /\ toolResult = NoToolResult
  /\ historyLen = 0
  /\ NoConverse
  /\ NoWindow
  /\ NoLedger
  /\ NoAgent
  /\ NoSessions
  /\ pc = "titleGen"
  /\ title = <<>>
  /\ titleCall \in {[output |-> o, threw |-> b, title |-> <<>>] :
                       o \in Outputs, b \in BOOLEAN}
  /\ titleCall.threw => titleCall.output = <<>>

\* const title = await generateSessionTitle(workerId, conversation)
GenerateSessionTitle ==
  /\ pc = "titleGen"
  /\ titleCall' = [titleCall EXCEPT
                     !.title = generateSessionTitle(titleCall.output,
                                                    titleCall.threw)]
  /\ pc' = "titleUpdate"
  /\ UNCHANGED <<log, agentStatus, title, isCancelled, completeCancelCount, res,
                 toolIdx, toolResultMessage, attemptCount, maxTokensExceededCount,
                 currentAccountIndex, awsAccounts, LLM_PROVIDER, events, error,
                 turns, cancelledAt, toolResult, historyLen,
                 clientVars, contextVars, ledgerVars, agentVars, sessionVars>>

\* if (title) { updateSessionTitle; sendWebappEvent sessionTitleUpdate }
UpdateSessionTitle ==
  /\ pc = "titleUpdate"
  /\ IF titleCall.title # <<>>
       THEN /\ title' = titleCall.title
            /\ events' = Append(events, Event("sessionTitleUpdate", <<>>))
       ELSE UNCHANGED <<title, events>>
  /\ pc' = "finally"
  /\ UNCHANGED <<log, agentStatus, isCancelled, completeCancelCount, res,
                 toolIdx, toolResultMessage, attemptCount, maxTokensExceededCount,
                 currentAccountIndex, awsAccounts, LLM_PROVIDER, error,
                 turns, cancelledAt, toolResult, historyLen, sideVars>>

NextTitle ==
  \/ GenerateSessionTitle
  \/ UpdateSessionTitle

SpecTitle == InitTitle /\ [][NextTitle]_vars

(***************************************************************************)
(* The token ledger: calls of trackTokenUsage for one (workerId, modelId), *)
(* interleaved at their awaits.                                            *)
(***************************************************************************)

InitLedger ==
  /\ log = <<>>
  /\ agentStatus = "working"
  /\ isCancelled = FALSE
  /\ completeCancelCount = 0
  /\ res = None
  /\ toolIdx = 0
  /\ toolResultMessage = <<>>
  /\ attemptCount = 0
  /\ maxTokensExceededCount = 0
  /\ currentAccountIndex = 0
  /\ awsAccounts = 1
  /\ LLM_PROVIDER = "bedrock"
  /\ events = <<>>
  /\ error = "none"
  /\ turns = 1
  /\ cancelledAt = "none"
  /\ toolResult = NoToolResult
  /\ historyLen = 0
  /\ NoConverse
  /\ NoWindow
  /\ NoTitleCall
  /\ title = ""
  /\ pc = "ledger"
  /\ NoLedger
  /\ NoAgent
  /\ NoSessions

\* trackTokenUsage is called with a response: without usage it returns, else
\* it sends the GetCommand
TrackTokenUsage(c) ==
  /\ calls[c].pc = "idle"
  /\ \E usage \in Usages \cup {NoUsage} :
       calls' = [calls EXCEPT ![c] = IF usage = NoUsage
                                       THEN Call("done", NoUsage, FALSE)
                                       ELSE Call("get", usage, FALSE)]
  /\ UNCHANGED <<loopVars, clientVars, contextVars, titleVars, ledger,
                 agentVars, sessionVars>>

\* the GetCommand returns existingItem
GetCommand(c) ==
  /\ calls[c].pc = "get"
  /\ calls' = [calls EXCEPT ![c] = Call("write", calls[c].usage, ledger.exists)]
  /\ UNCHANGED <<loopVars, clientVars, contextVars, titleVars, ledger,
                 agentVars, sessionVars>>

\* the UpdateCommand or the PutCommand is applied by the store
WriteCommand(c) ==
  /\ calls[c].pc = "write"
  /\ ledger' = Write(ledger, calls[c].found, calls[c].usage)
  /\ calls' = [calls EXCEPT ![c].pc = "done"]
  /\ UNCHANGED <<loopVars, clientVars, contextVars, titleVars, agentVars, sessionVars>>

\* a command rejects: the error is logged and trackTokenUsage returns
CommandFails(c) ==
  /\ calls[c].pc \in {"get", "write"}
  /\ calls' = [calls EXCEPT ![c].pc = "failed"]
  /\ UNCHANGED <<loopVars, clientVars, contextVars, titleVars, ledger,
                 agentVars, sessionVars>>

NextLedger ==
  \E c \in 1..MaxCalls :
    \/ TrackTokenUsage(c)
    \/ GetCommand(c)
    \/ WriteCommand(c)
    \/ CommandFails(c)

SpecLedger == InitLedger /\ [][NextLedger]_vars


(***************************************************************************)
(* The history load at the entry of agentLoop: pRetry around               *)
(* getConversationHistory, on any log a read can return.                   *)
(***************************************************************************)
MaxRead == 5         \* items of the log while the history is loaded

(* ---- program constants ---- *)
lastAttemptCount == 4      \* attemptCount > 4
historyRetries == 5        \* retries: 5

\* the item that can follow a log: a toolResult follows its toolUse and
\* nothing else does; a log starts with a userMessage
NextItems(items) ==
  IF Len(items) = 0 THEN {UserMessageItem}
  ELSE IF LastMessageType(items) = "toolUse"
    THEN {ToolResultItem(items[Len(items)].toolUseIds)}
  ELSE IF LastMessageType(items) = "assistantResponse"
    THEN {UserMessageItem}
  ELSE {UserMessageItem, AssistantResponseItem,
        ToolUseItem(ToolUseIdsOf(Len(items), 1))}

\* the logs of at most n items
RECURSIVE Logs(_)
Logs(n) ==
  IF n = 0 THEN {<<>>}
  ELSE Logs(n - 1) \cup UNION {{Append(l, i) : i \in NextItems(l)} :
                                 l \in {k \in Logs(n - 1) : Len(k) = n - 1}}

\* a callback that returns only a history that ends with a userMessage
ReturnsOnUserMessage(lastItem, attempt) ==
  lastItem \in {"undefined", "userMessage"}

\* the callback's test on the history it read
ReturnsHistory(lastItem, attempt) ==
  \/ lastItem = "undefined"
  \/ lastItem = "userMessage"
  \/ attempt > lastAttemptCount

InitHistory ==
  /\ log \in Logs(MaxRead)
  /\ agentStatus = "working"
  /\ title = ""
  /\ pc = "entry"
  /\ isCancelled = FALSE
  /\ completeCancelCount = 0
  /\ res = None
  /\ toolIdx = 0
  /\ toolResultMessage = <<>>
  /\ attemptCount = 1
  /\ maxTokensExceededCount = 0
  /\ currentAccountIndex = 0
  /\ awsAccounts = 1
  /\ LLM_PROVIDER = "bedrock"
  /\ events = <<>>
  /\ error = "none"
  /\ turns = 1
  /\ cancelledAt = "none"
  /\ toolResult = NoToolResult
  /\ historyLen = 0
  /\ NoConverse
  /\ NoWindow
  /\ NoTitleCall
  /\ NoLedger
  /\ NoAgent
  /\ NoSessions

\* one attempt of the wrapper: the history is read; it is returned, or the
\* callback throws and pRetry runs it again while retries remain
GetConversationHistory ==
  /\ pc = "entry"
  /\ IF ReturnsHistory(LastMessageType(log), attemptCount)
       THEN /\ pc' = "loopTop"
            /\ historyLen' = Len(log)
            /\ error' = "none"
            /\ UNCHANGED attemptCount
       ELSE /\ error' = "Error"
            /\ UNCHANGED historyLen
            /\ IF attemptCount <= historyRetries
                 THEN pc' = "entry" /\ attemptCount' = attemptCount + 1
                 ELSE pc' = "rejected" /\ UNCHANGED attemptCount
  /\ UNCHANGED <<log, agentStatus, title, isCancelled, completeCancelCount, res,
                 toolIdx, toolResultMessage, maxTokensExceededCount,
                 currentAccountIndex, awsAccounts, LLM_PROVIDER, events, turns,
                 cancelledAt, toolResult, sideVars>>

\* an item is written to the log (or reaches the replica that is read) while
\* the history load is between two attempts
ItemArrives ==
  /\ pc = "entry"
  /\ Len(log) < MaxRead
  /\ \E i \in NextItems(log) : log' = Append(log, i)
  /\ UNCHANGED <<agentStatus, title, pc, isCancelled, completeCancelCount, res,
                 toolIdx, toolResultMessage, attemptCount, maxTokensExceededCount,
                 currentAccountIndex, awsAccounts, LLM_PROVIDER, events, error,
                 turns, cancelledAt, toolResult, historyLen, sideVars>>

NextHistory ==
  \/ GetConversationHistory
  \/ ItemArrives

SpecHistory == InitHistory /\ [][NextHistory]_vars

(***************************************************************************)
(* The setup of agentLoop and its tool iterations: the system prompt and   *)
(* the tool catalog of every call, and the lookup of the requested tool.   *)
(***************************************************************************)

InitAgent ==
  /\ log = <<>>
  /\ agentStatus = "working"
  /\ title = ""
  /\ pc = "entry"
  /\ isCancelled = FALSE
  /\ completeCancelCount = 0
  /\ res = None
  /\ toolIdx = 0
  /\ toolResultMessage = <<>>
  /\ attemptCount = 0
  /\ maxTokensExceededCount = 0
  /\ currentAccountIndex = 0
  /\ awsAccounts = 1
  /\ LLM_PROVIDER = "bedrock"
  /\ events = <<>>
  /\ error = "none"
  /\ turns = 1
  /\ cancelledAt = "none"
  /\ toolResult = NoToolResult
  /\ historyLen = 0
  /\ NoConverse
  /\ NoWindow
  /\ NoTitleCall
  /\ NoLedger
  /\ NoSessions
  /\ customAgent \in CustomAgents
  /\ tools = <<>>
  /\ toolUse = ""
  /\ systemPrompt = <<>>
  /\ repo \in {"none", "noKnowledge", "knowledge"}

\* the system prompt is built (the common prompt of the preferences, the
\* knowledge of the repository the metadata names) and the built-in tools
\* are filtered
LoadAgent ==
  /\ pc = "entry"
  /\ \E additionalSystemPrompt \in BOOLEAN :
       systemPrompt' = tryAppendRepositoryKnowledge(
                         tryAppendCommonPrompt("base", additionalSystemPrompt), repo)
  /\ tools' = FilterTools(customAgent)
  /\ pc' = "calling"
  /\ UNCHANGED <<log, agentStatus, title, isCancelled, completeCancelCount, res,
                 toolIdx, toolResultMessage, attemptCount, maxTokensExceededCount,
                 currentAccountIndex, awsAccounts, LLM_PROVIDER, events, error,
                 turns, cancelledAt, toolResult, historyLen, clientVars,
                 contextVars, titleVars, ledgerVars, sessionVars, customAgent,
                 toolUse, repo>>

\* converse({ messages, system: systemPrompt, toolConfig }) returns: a toolUse
\* block that names some tool, or the final response
Converse ==
  /\ pc = "calling"
  /\ \/ /\ \E name \in {BuiltInTools[i] : i \in 1..Len(BuiltInTools)}
                         \cup {"mcpTool", "unknownTool"} :
             /\ name = "cloneRepository" => Len(systemPrompt) < MaxSections
             /\ toolUse' = name
        /\ pc' = "toolExec"
     \/ /\ pc' = "final"
        /\ UNCHANGED toolUse
  /\ UNCHANGED <<log, agentStatus, title, isCancelled, completeCancelCount, res,
                 toolIdx, toolResultMessage, attemptCount, maxTokensExceededCount,
                 currentAccountIndex, awsAccounts, LLM_PROVIDER, events, error,
                 turns, cancelledAt, toolResult, historyLen, clientVars,
                 contextVars, titleVars, ledgerVars, sessionVars, customAgent,
                 tools, systemPrompt, repo>>

\* the lookup: a tool served by MCP is called; else the name is looked up in
\* the filtered built-in list and the input is parsed, and the handler is
\* called or the error is caught
FindTool ==
  /\ pc = "toolExec"
  /\ IF customAgent.mcp /\ toolUse = "mcpTool"
       THEN pc' = "toolRunning" /\ UNCHANGED toolResult
     ELSE IF ~(\E i \in 1..Len(tools) : tools[i] = toolUse)
       THEN /\ toolResult' = CatchToolError("tool is not found")
            /\ pc' = "toolResultEvent"
     ELSE \E success \in BOOLEAN :
            IF success
              THEN pc' = "toolRunning" /\ UNCHANGED toolResult
              ELSE /\ toolResult' = CatchToolError("invalid input")
                   /\ pc' = "toolResultEvent"
  /\ UNCHANGED <<log, agentStatus, title, isCancelled, completeCancelCount, res,
                 toolIdx, toolResultMessage, attemptCount, maxTokensExceededCount,
                 currentAccountIndex, awsAccounts, LLM_PROVIDER, events, error,
                 turns, cancelledAt, historyLen, clientVars, contextVars,
                 titleVars, ledgerVars, sessionVars, agentVars>>

\* the handler returns or throws; after cloneRepository has returned, the
\* metadata names the repository and its knowledge is appended to the prompt
ToolHandler ==
  /\ pc = "toolRunning"
  /\ \E outcome \in {"result", "throws"} :
       /\ toolResult' = IF outcome = "throws"
                           THEN CatchToolError("handler error")
                           ELSE ToolResultOf("result")
       /\ IF outcome = "result" /\ toolUse = "cloneRepository"
            THEN \E r \in {"noKnowledge", "knowledge"} :
                   /\ repo' = r
                   /\ systemPrompt' = tryAppendRepositoryKnowledge(systemPrompt, r)
            ELSE UNCHANGED <<repo, systemPrompt>>
  /\ pc' = "toolResultEvent"
  /\ UNCHANGED <<log, agentStatus, title, isCancelled, completeCancelCount, res,
                 toolIdx, toolResultMessage, attemptCount, maxTokensExceededCount,
                 currentAccountIndex, awsAccounts, LLM_PROVIDER, events, error,
                 turns, cancelledAt, historyLen, clientVars, contextVars,
                 titleVars, ledgerVars, sessionVars, customAgent, tools,
                 toolUse>>

\* the toolResult is pushed and the pair saved: the next iteration
NextIteration ==
  /\ pc = "toolResultEvent"
  /\ pc' = "calling"
  /\ toolUse' = ""
  /\ toolResult' = NoToolResult
  /\ UNCHANGED <<log, agentStatus, title, isCancelled, completeCancelCount, res,
                 toolIdx, toolResultMessage, attemptCount, maxTokensExceededCount,
                 currentAccountIndex, awsAccounts, LLM_PROVIDER, events, error,
                 turns, cancelledAt, historyLen, clientVars, contextVars,
                 titleVars, ledgerVars, sessionVars, customAgent, tools,
                 systemPrompt, repo>>

NextAgent ==
  \/ LoadAgent
  \/ Converse
  \/ FindTool
  \/ ToolHandler
  \/ NextIteration

SpecAgent == InitAgent /\ [][NextAgent]_vars

(***************************************************************************)
(* The session records: creation, updates and the listing of getSessions.  *)
(* A record holds the attributes the listing reads.                        *)
(***************************************************************************)

InitSessions ==
  /\ log = <<>>
  /\ agentStatus = "pending"
  /\ title = ""
  /\ pc = "sessions"
  /\ isCancelled = FALSE
  /\ completeCancelCount = 0
  /\ res = None
  /\ toolIdx = 0
  /\ toolResultMessage = <<>>
  /\ attemptCount = 0
  /\ maxTokensExceededCount = 0
  /\ currentAccountIndex = 0
  /\ awsAccounts = 1
  /\ LLM_PROVIDER = "bedrock"
  /\ events = <<>>
  /\ error = "none"
  /\ turns = 0
  /\ cancelledAt = "none"
  /\ toolResult = NoToolResult
  /\ historyLen = 0
  /\ NoConverse
  /\ NoWindow
  /\ NoTitleCall
  /\ NoLedger
  /\ NoAgent
  /\ sessions = [w \in 1..MaxSessions |-> [exists |-> FALSE]]
  /\ listing = [called |-> FALSE]
  /\ now = 8

\* the session initiator writes the record of a new worker: LSI1 is the
\* zero-padded updatedAt
CreateSession(w) ==
  /\ ~sessions[w].exists
  /\ w > 1 => sessions[w - 1].exists
  /\ \E t \in {now, now + 1} :
       /\ t <= 8 + MaxTime
       /\ now' = t
       /\ sessions' = [sessions EXCEPT ![w] =
                         [exists |-> TRUE, updatedAt |-> t,
                          LSI1 |-> PadTimestamp(t), isHidden |-> FALSE]]
  /\ UNCHANGED <<loopVars, clientVars, contextVars, titleVars, ledgerVars,
                 agentVars, listing>>

\* updateSession(workerId, params): SET updatedAt = Date.now() and every
\* attribute of params (updateSessionAgentStatus, updateSessionTitle and
\* updateSessionVisibility pass one attribute each)
UpdateSession(w, params) ==
  /\ sessions[w].exists
  /\ \E t \in {now, now + 1} :
       /\ t <= 8 + MaxTime
       /\ now' = t
       /\ sessions' = [sessions EXCEPT ![w] =
                         [@ EXCEPT !.updatedAt = t,
                                   !.isHidden = IF "isHidden" \in DOMAIN params
                                                  THEN params.isHidden ELSE @]]
  /\ UNCHANGED <<loopVars, clientVars, contextVars, titleVars, ledgerVars,
                 agentVars, listing>>

\* getSessions(limit, range): the query of index LSI1 in descending order of
\* the key (records with equal keys in any order), between the padded ends of
\* the range if one is given, cut after limit records unless limit is 0; then
\* the hidden sessions are filtered out
GetSessions(limit, range) ==
  LET matching == {w \in 1..MaxSessions :
                     /\ sessions[w].exists
                     /\ range # <<>> =>
                          /\ ~StringLess(sessions[w].LSI1, PadTimestamp(range[1]))
                          /\ ~StringLess(PadTimestamp(range[2]), sessions[w].LSI1)}
      n == Cardinality(matching)
      pages == {q \in [1..n -> matching] :
                  /\ \A i, j \in 1..n : i # j => q[i] # q[j]
                  /\ \A i, j \in 1..n :
                       i < j => ~StringLess(sessions[q[i]].LSI1, sessions[q[j]].LSI1)}
  IN \E q \in pages :
       LET items == IF limit = 0 THEN q ELSE SubSeq(q, 1, Min(limit, n))
       IN listing' = [called |-> TRUE, limit |-> limit, range |-> range,
                      items |-> SelectSeq(items, LAMBDA w : ~sessions[w].isHidden)]
     /\ UNCHANGED <<loopVars, clientVars, contextVars, titleVars, ledgerVars,
                    agentVars, sessions, now>>

\* a listing reads the records and writes none: a behaviour is followed up to
\* its first listing, which is taken in every state the records can reach
NextSessions ==
  \/ \E w \in 1..MaxSessions : ~listing.called /\ CreateSession(w)
  \/ \E w \in 1..MaxSessions :
       \E params \in {[isHidden |-> TRUE], [isHidden |-> FALSE],
                      [agentStatus |-> "working"], [title |-> "t"]} :
         ~listing.called /\ UpdateSession(w, params)
  \/ \E limit \in 0..MaxSessions :
       \E range \in {<<>>} \cup UNION {{<<a, b>> : b \in a..(8 + MaxTime)} :
                                        a \in 8..(8 + MaxTime)} :
         ~listing.called /\ GetSessions(limit, range)

SpecSessions == InitSessions /\ [][NextSessions]_vars

TypeOK ==
  /\ pc \in {"idle", "resume", "entry", "loopTop", "invoke", "calling", "gotRes",
             "toolUseEvent", "toolExec", "toolRunning", "toolResultEvent",
             "savePair", "final", "sendFinal", "afterLoop", "titleGen",
             "finally", "updatingStatus", "done"}
  /\ agentStatus \in {"pending", "working"}
  /\ Len(log) <= MaxLog
  /\ isCancelled \in BOOLEAN
  /\ attemptCount \in 0..(MaxRetries + 1)
  /\ currentAccountIndex \in 0..(awsAccounts - 1)
  /\ turns \in 0..MaxTurns

(***************************************************************************)
(* Claims                                                                  *)
(***************************************************************************)

\* C1: in every reachable state of the log, every toolUse item is followed at
\* the next position by a toolResult item that holds exactly one toolResult
\* block per toolUseId of the toolUse item (same ids, same order), no second
\* toolResult item follows it, and no toolResult item stands without its
\* toolUse item before it.
C1_PairAtomicity ==
  \A i \in 1..Len(log) :
    /\ log[i].messageType = "toolUse" =>
         /\ i < Len(log)
         /\ log[i + 1].messageType = "toolResult"
         /\ log[i + 1].toolUseIds = log[i].toolUseIds
         /\ i + 2 <= Len(log) => log[i + 2].messageType # "toolResult"
    /\ log[i].messageType = "toolResult" =>
         /\ i > 1
         /\ log[i - 1].messageType = "toolUse"

\* a turn that was cancelled while a tool handler ran has ended, and the pair
\* of its two-tool assistant message is in the log
C1_Witness ==
  /\ pc = "done"
  /\ cancelledAt = "midTool"
  /\ \E i \in 1..Len(log) :
       log[i].messageType = "toolUse" /\ Len(log[i].toolUseIds) = 2

\* C2: when the token was set during the turn (at any await up to the finally
\* block, mid-tool and in-flight included), then at the end of
\* onMessageReceived the status is still 'working' (never written to
\* 'pending') and completeCancel has been called exactly once.
C2_CancelledTurnLeavesWorking ==
  (pc = "done" /\ cancelledAt \in {"inTurn", "inFlight", "midTool"}) =>
    (agentStatus = "working" /\ completeCancelCount = 1)

\* a turn cancelled while a tool handler ran has ended
C2_Witness ==
  /\ pc = "done"
  /\ cancelledAt = "midTool"
  /\ LastMessageType(log) = "toolResult"


\* a step of the turn that publishes nothing, or only the title event
NoLoopEvent ==
  \/ events' = events
  \/ /\ Len(events') = Len(events) + 1
     /\ events'[Len(events')].type = "sessionTitleUpdate"

\* C3: when the token is set while an LLM call is in flight, nothing derived
\* from that call's result happens in the rest of the turn: no item is
\* appended to the log, no tool is dispatched and no message or tool event is
\* published.
C3_InFlightResultDiscarded ==
  [][(cancelledAt = "inFlight" /\ pc # "done") =>
       /\ log' = log
       /\ pc' \notin {"toolExec", "toolRunning"}
       /\ NoLoopEvent]_vars

\* C4: once the token is set, no further LLM call is issued and no further
\* tool handler (MCP or built-in) is invoked in that turn.
C4_NoCallNoToolAfterCancel ==
  [][isCancelled =>
       /\ ~(pc # "calling" /\ pc' = "calling")
       /\ ~(pc # "toolRunning" /\ pc' = "toolRunning")]_vars

\* C5 as stated: when agentLoop was aborted by an error that is neither
\* throttling nor max-tokens and the turn was not cancelled, the status is
\* still 'working' when onMessageReceived has finished.
C5_ProviderErrorLeavesWorking ==
  (pc = "done" /\ error = "Error" /\ ~isCancelled) => agentStatus = "working"

\* C5 amended: when agentLoop was aborted by an error that is neither
\* throttling nor max-tokens and the turn was not cancelled, the finally block
\* of onMessageReceived has set the status to 'pending' when it finishes.
C5_ProviderErrorSetsPending ==
  (pc = "done" /\ error = "Error" /\ ~isCancelled) => agentStatus = "pending"

\* a turn aborted by a provider error, never cancelled, has finished
C5_Witness ==
  pc = "done" /\ error = "Error" /\ ~isCancelled /\ LLM_PROVIDER = "bedrock"

\* C6: resume on a log whose last item is an assistantResponse is a no-op:
\* from the call to the return nothing but the position of the caller
\* changes (no status write, no LLM call, no item, no event, token untouched).
C6_ResumeNoOp ==
  [][((pc = "idle" /\ pc' = "resume") \/
      (pc = "resume" /\ LastMessageType(log) = "assistantResponse")) =>
       /\ pc' \in {"resume", "idle"}
       /\ UNCHANGED <<log, agentStatus, title, isCancelled, completeCancelCount,
                      res, toolIdx, toolResultMessage, attemptCount,
                      maxTokensExceededCount, currentAccountIndex, awsAccounts,
                      LLM_PROVIDER, events, error, turns, cancelledAt>>]_vars

\* resume has read a history that ends with the assistantResponse of a turn
C6_Witness ==
  pc = "resume" /\ LastMessageType(log) = "assistantResponse" /\ turns = 1

\* C7 as stated: resume runs one turn whenever the last item is not an
\* assistantResponse, the empty log included.
C7_ResumeRunsTurnUnlessAssistantResponse ==
  [][(pc = "resume" /\ LastMessageType(log) # "assistantResponse") =>
       (pc' = "entry" /\ turns' = turns + 1)]_vars

\* C7 amended: resume runs exactly one turn (one call of onMessageReceived,
\* which sets the status to 'working') when the last item is a userMessage or
\* a toolResult, and returns without a turn otherwise (empty log included).
C7_ResumeRunsOneTurnIff ==
  [][pc = "resume" =>
       IF LastMessageType(log) \in {"userMessage", "toolResult"}
         THEN pc' = "entry" /\ turns' = turns + 1 /\ agentStatus' = "working"
         ELSE pc' = "idle" /\ turns' = turns /\ agentStatus' = agentStatus]_vars

\* resume has read a history that ends with the toolResult of a turn that
\* was cut short
C7_Witness ==
  pc = "resume" /\ LastMessageType(log) = "toolResult" /\ turns = 1

\* the events of a turn are in the order of the ranks r: ranks never
\* decrease, there is at most one title event and one message event, and
\* every tool's toolUse event is directly followed by its toolResult event
EventsInOrder(r) ==
  /\ \A i \in 1..(Len(events) - 1) : r[events[i].type] <= r[events[i + 1].type]
  /\ \A i, j \in 1..Len(events) :
       (i # j /\ events[i].type = events[j].type) =>
         events[i].type \in {"toolUse", "toolResult"}
  /\ \A i \in 1..Len(events) :
       /\ (events[i].type = "toolUse" /\ i < Len(events)) =>
            events[i + 1] = Event("toolResult", events[i].toolUseId)
       /\ events[i].type = "toolResult" =>
            (i > 1 /\ events[i - 1] = Event("toolUse", events[i].toolUseId))

\* C8 as stated: tool events first, then the sessionTitleUpdate event, and
\* only after that the final message event.
C8_TitleBeforeFinalMessage ==
  EventsInOrder([toolUse |-> 1, toolResult |-> 1, sessionTitleUpdate |-> 2,
                 message |-> 3])

\* C8 amended: per tool one toolUse event directly followed by its toolResult
\* event; then the final message event; and only after that, when a title was
\* generated, the sessionTitleUpdate event.
C8_FinalMessageBeforeTitle ==
  EventsInOrder([toolUse |-> 1, toolResult |-> 1, message |-> 2,
                 sessionTitleUpdate |-> 3])

\* a finished turn with a tool round trip, a final message and a title
C8_Witness ==
  /\ pc = "done"
  /\ Len(events) >= 4
  /\ events[1].type = "toolUse"
  /\ events[Len(events) - 1].type = "message"
  /\ events[Len(events)].type = "sessionTitleUpdate"

\* C9: a throttled call is retried by the wrapper while retries remain, on
\* either provider, and a failed attempt appends nothing to the log.
C9_ThrottlingRetried ==
  [][(pc = "calling" /\ IsThrottling(error')) =>
       /\ log' = log
       /\ (pc' = "invoke" \/ attemptCount > MaxRetries)]_vars

\* C10: an error that is neither throttling nor the max-tokens sentinel ends
\* the turn at once: the wrapper rejects without another attempt, the loop
\* makes no further iteration (no call, no tool), and the log stays as it was.
C10_OtherErrorAborts ==
  [][/\ (pc \in {"invoke", "calling"} /\ error' = "Error") =>
          (pc' = "finally" /\ log' = log)
     /\ (error = "Error" /\ pc \notin {"invoke", "calling", "done"}) =>
          (pc' \in {"finally", "updatingStatus", "done"} /\ log' = log)]_vars

\* the wrapper has rejected with a provider error in the second iteration of
\* a turn, after a tool round trip
C10_Witness ==
  pc = "finally" /\ error = "Error" /\ LastMessageType(log) = "toolResult"
     /\ maxTokensExceededCount = 0

\* C11: within one turn the loop sends requests with at most 5 escalations of
\* the output budget; once the counter exceeds 5 the next attempt throws an
\* error that is not retried (agentLoop rejects with it); and the counter
\* never decreases while the turn runs, whatever iteration of the loop it is
\* in.
C11_EscalationBounded ==
  [][/\ pc' = "calling" => maxTokensExceededCount' <= maxTokensExceededLimit
     /\ (/\ pc = "invoke" /\ pc' # pc /\ ~isCancelled
         /\ maxTokensExceededCount > maxTokensExceededLimit)
          => (pc' = "finally" /\ error' = "Error")
     /\ maxTokensExceededCount' < maxTokensExceededCount => pc = "done"]_vars

C11_Witness ==
  /\ pc = "finally"
  /\ error = "Error"
  /\ maxTokensExceededCount = maxTokensExceededLimit + 1

\* C13 as stated: a throttling error of an LLM call moves the account index
\* to (index + 1) mod N, and the new index differs from the old one, for
\* every account list; a call that returns leaves the index unchanged.
C13_ThrottlingAdvancesIndex ==
  [][/\ (pc = "calling" /\ IsThrottling(error'))
          => /\ currentAccountIndex' = (currentAccountIndex + 1) % awsAccounts
             /\ currentAccountIndex' # currentAccountIndex
     /\ (pc = "calling" /\ pc' = "gotRes")
          => currentAccountIndex' = currentAccountIndex]_vars

\* C13 amended: a ThrottlingException of a Bedrock call moves the account
\* index to (index + 1) mod N, which differs from the old index exactly when
\* there are at least two accounts; every other step (a call that returns, any
\* other error, any error on the Anthropic path) leaves the index unchanged.
C13_ThrottlingExceptionRotates ==
  [][IF pc = "calling" /\ error' = "ThrottlingException"
       THEN /\ currentAccountIndex' = (currentAccountIndex + 1) % awsAccounts
            /\ currentAccountIndex' # currentAccountIndex <=> awsAccounts >= 2
       ELSE currentAccountIndex' = currentAccountIndex]_vars

C13_Witness ==
  /\ error = "ThrottlingException"
  /\ awsAccounts = 2
  /\ currentAccountIndex = 1

\* the turn took the empty-content exit of the loop: a message event was
\* published and no assistantResponse was saved for it
EmptyTurn ==
  /\ \E i \in 1..Len(events) : events[i].type = "message"
  /\ LastMessageType(log) # "assistantResponse"

MessageEvents == {i \in 1..Len(events) : events[i].type = "message"}

\* C20 as stated: a response with empty content and a non-tool stop reason
\* ends the turn with exactly one placeholder message event, no item appended
\* to the log, no further LLM call, and the status 'pending' when
\* onMessageReceived has finished.
C20_EmptyResponseEndsPending ==
  [][/\ (pc = "final" /\ ~res.hasContent /\ pc' # pc)
          => /\ events' = Append(events, Event("message", <<>>))
             /\ log' = log
             /\ pc' = "afterLoop"
     /\ EmptyTurn => /\ log' = log
                     /\ pc' # "calling"
                     /\ Cardinality(MessageEvents) = 1
     /\ (EmptyTurn /\ pc = "done") => agentStatus = "pending"]_vars

\* C20 amended: as C20, but the status is 'pending' when onMessageReceived
\* has finished exactly when the finally block did not find the token set; a
\* turn cancelled before that keeps 'working'.
C20_EmptyResponseEndsTurn ==
  [][/\ (pc = "final" /\ ~res.hasContent /\ pc' # pc)
          => /\ events' = Append(events, Event("message", <<>>))
             /\ log' = log
             /\ pc' = "afterLoop"
     /\ EmptyTurn => /\ log' = log
                     /\ pc' # "calling"
                     /\ Cardinality(MessageEvents) = 1
     /\ (EmptyTurn /\ pc = "done")
          => (agentStatus = "pending" <=> completeCancelCount = 0)]_vars

C20_Witness ==
  /\ EmptyTurn
  /\ pc = "done"
  /\ agentStatus = "pending"
  /\ Len(log) > 1

\* C21: a tool failure is never fatal to the turn: when the requested tool is
\* unknown, its input is invalid or its handler (or the MCP call) throws, the
\* toolResult of that toolUseId is the text "Error occurred when using tool
\* <name>: <message>", the remaining tools of the message are still
\* dispatched, the pair is saved and the loop goes on to its next iteration.
C21_ToolFailureNotFatal ==
  [][/\ (pc \in {"toolExec", "toolRunning"} /\ toolResult'.e # "none")
          => /\ toolResult'.e \in ToolErrors
             /\ toolResult'.text = <<"Error occurred when using tool", toolResult'.e>>
             /\ toolResultMessage' = Append(toolResultMessage, res.toolUseIds[toolIdx])
             /\ pc' = "toolResultEvent"
             /\ error' = "none"
     /\ (pc \in {"toolExec", "toolRunning"} /\ pc' # pc)
          => pc' \in {"toolRunning", "toolResultEvent"}
     /\ (pc = "toolResultEvent" /\ pc' # pc)
          => IF toolIdx < Len(res.toolUseIds)
               THEN pc' = "toolUseEvent" /\ toolIdx' = toolIdx + 1
               ELSE pc' = "savePair" /\ toolResultMessage' = toolResultMessage
     /\ (pc = "savePair" /\ pc' # pc)
          => /\ log' = log \o <<ToolUseItem(res.toolUseIds),
                                 ToolResultItem(toolResultMessage)>>
             /\ Len(toolResultMessage) = Len(res.toolUseIds)
             /\ pc' = "loopTop"
             /\ error' = "none"]_vars

\* the first of two requested tools is unknown: its error text is the
\* toolResult and the second tool is still to be dispatched
C21_Witness ==
  /\ pc = "toolResultEvent"
  /\ toolResult = CatchToolError("tool is not found")
  /\ toolIdx < Len(res.toolUseIds)
  /\ toolResultMessage = <<res.toolUseIds[toolIdx]>>

\* C22: when a turn saves its final assistant response after k tool round
\* trips, it has appended exactly 2k+1 items to the history it read: k times
\* (toolUse, toolResult) and then one assistantResponse, so that the roles
\* alternate from the triggering user-role item onward.
C22_TurnAppendsPairsThenResponse ==
  pc = "sendFinal"
    => LET n == Len(log) - historyLen
       IN /\ historyLen >= 1
          /\ n % 2 = 1
          /\ \A j \in 1..n :
                log[historyLen + j].messageType =
                  IF j = n THEN "assistantResponse"
                  ELSE IF j % 2 = 1 THEN "toolUse" ELSE "toolResult"
          /\ log[historyLen].role = "user"
          /\ \A i \in historyLen..(Len(log) - 1) : log[i].role # log[i + 1].role

\* a turn with one tool round trip has saved its final response
C22_Witness ==
  /\ pc = "sendFinal"
  /\ Len(log) - historyLen = 3
  /\ ~isCancelled

\* positions of onMessageReceived after the first status write and before
\* the last one has completed
TurnPositions ==
  {"entry", "loopTop", "invoke", "calling", "gotRes", "toolUseEvent", "toolExec",
   "toolRunning", "toolResultEvent", "savePair", "final", "sendFinal",
   "afterLoop", "titleGen", "finally", "updatingStatus"}

\* C23: the status is 'working' before the history is read or an LLM call is
\* made and during every iteration of the loop; when onMessageReceived is
\* over and the turn was not cancelled it is 'pending'; the loop writes no
\* other value.
C23_WorkingThenPending ==
  /\ pc \in TurnPositions => agentStatus = "working"
  /\ (pc = "done" /\ ~isCancelled) => agentStatus = "pending"
  /\ agentStatus \in {"working", "pending"}

\* the second turn of a session is calling the model: the status, 'pending'
\* after the first turn, is 'working' again
C23_Witness ==
  /\ pc = "calling"
  /\ turns = 2
  /\ ~isCancelled
  /\ agentStatus = "working"

\* C29: the title path runs only at the end of a turn that saved a final
\* assistant reply and only while the session has no title, and not after a
\* turn that was cancelled before its reply.
C29_TitleOnlyAfterFinalReply ==
  pc = "titleGen"
    => /\ title = ""
       /\ LastMessageType(log) = "assistantResponse"
       /\ MessageEvents # {}

\* positions of the for loop over the toolUse blocks of one assistant message
ToolPositions == {"toolUseEvent", "toolExec", "toolRunning", "toolResultEvent"}

\* C32: the tool calls of one assistant message run one after the other in
\* the order of its toolUse blocks: while the i-th request is announced,
\* looked up or running, the toolResult message holds exactly the results of
\* the requests 1..i-1 in that order; when it has completed, those of 1..i;
\* the saved toolResult message lists all of them in the order of the toolUse
\* blocks; and no attempt of the LLM call is outstanding while a tool runs.
C32_ToolsRunSequentially ==
  /\ pc \in {"toolUseEvent", "toolExec", "toolRunning"}
       => /\ toolIdx \in 1..Len(res.toolUseIds)
          /\ toolResultMessage = SubSeq(res.toolUseIds, 1, toolIdx - 1)
  /\ pc = "toolResultEvent"
       => /\ toolIdx \in 1..Len(res.toolUseIds)
          /\ toolResultMessage = SubSeq(res.toolUseIds, 1, toolIdx)
  /\ pc = "savePair" => toolResultMessage = res.toolUseIds
  /\ pc \in ToolPositions \cup {"savePair"}
       => /\ attemptCount = 0
          /\ res.stopReason = "tool_use"

\* the second tool of a message is running and the result of the first is
\* the only one in the toolResult message
C32_Witness ==
  /\ pc = "toolRunning"
  /\ toolIdx = 2
  /\ toolResultMessage = <<res.toolUseIds[1]>>

\* the turn has finalized: it saved its final assistant message and published
\* the message event for it
Finalized ==
  /\ Len(log) > historyLen
  /\ LastMessageType(log) = "assistantResponse"
  /\ MessageEvents # {}

\* C36 as stated: whenever a turn has finalized, the status is 'pending' when
\* onMessageReceived has finished, also when the token was set only after the
\* finalization (for example during title generation).
C36_FinalizedTurnEndsPending ==
  (pc = "done" /\ Finalized) => agentStatus = "pending"

\* C36 amended: when a finalized turn has finished, the status is 'pending'
\* and no cancellation was completed if the token was not set before the
\* finally block read it; if it was set before (title generation included),
\* the status is still 'working' and completeCancel was called once.
C36_FinalizedTurnEndsPendingUnlessCancelled ==
  (pc = "done" /\ Finalized) =>
    IF cancelledAt \in {"none", "afterFinally"}
      THEN agentStatus = "pending" /\ completeCancelCount = 0
      ELSE agentStatus = "working" /\ completeCancelCount = 1

\* a finalized turn that generated the title has finished with the token set
C36_Witness ==
  /\ pc = "done"
  /\ Finalized
  /\ isCancelled
  /\ cancelledAt = "inTurn"
  /\ title = "title"
  /\ agentStatus = "working"

\* the turn was cancelled and has not saved a final assistant message
CancelledBeforeFinal ==
  /\ isCancelled
  /\ ~(Len(log) > historyLen /\ LastMessageType(log) = "assistantResponse")

\* C40: when a turn has ended on an empty-content response, or was cancelled
\* before its final response was saved, the last item of the log is a
\* userMessage or a toolResult; a resume that reads such a log starts a new
\* turn (status 'working'), and a turn that is not cancelled goes from its
\* start through the history load and the top of the loop to an LLM call.
C40_ResumeAfterCutShortTurn ==
  /\ []((pc = "done" /\ (EmptyTurn \/ CancelledBeforeFinal))
          => LastMessageType(log) \in {"userMessage", "toolResult"})
  /\ [][/\ (pc = "resume" /\ LastMessageType(log) \in {"userMessage", "toolResult"})
              => (pc' = "entry" /\ turns' = turns + 1 /\ agentStatus' = "working")
        /\ (pc = "entry" /\ pc' # pc) => (pc' = "loopTop" /\ log' = log)
        /\ (pc = "loopTop" /\ ~isCancelled /\ pc' # pc) => pc' = "invoke"
        /\ (pc = "invoke" /\ ~isCancelled /\ attemptCount = 1 /\ error = "none"
              /\ pc' # pc) => pc' = "calling"]_vars

\* resume has read the log a cancelled turn left behind: its last item is the
\* toolResult of the pair that turn saved, and the status is still 'working'
C40_Witness ==
  /\ pc = "resume"
  /\ turns = 1
  /\ agentStatus = "working"
  /\ LastMessageType(log) = "toolResult"
  /\ Len(log) = 3

\* C37: when every awaited call returns and the token is never set, every
\* call of onMessageReceived comes to its end with the status 'pending',
\* whatever number of tool iterations the turn makes before the provider
\* returns a final response or the call fails for good.
C37_TurnTerminatesPending ==
  /\ (pc = "entry") ~> (pc = "done" /\ agentStatus = "pending")
  /\ [](pc = "done" => agentStatus = "pending")

\* a turn with a tool iteration has come to its end with its final response
C37_Witness ==
  /\ pc = "done"
  /\ agentStatus = "pending"
  /\ ~isCancelled
  /\ Len(log) - historyLen = 3
  /\ error = "none"

(* ---- claims about one call of converse (SpecConverse) ---- *)

\* min(2 * budget, maxOutputTokens) exceeds the adjusted maximum
ReasoningRaisesMaxTokens ==
  /\ request.reasoning
  /\ Min(2 * request.budget_tokens, modelConfig.maxOutputTokens)
       > Min(modelConfig.maxOutputTokens,
             defaultOutputTokenCount * 2 ^ maxTokensExceededCount)

\* C12: on the k-th retry after a max_tokens stop the request of either
\* provider path carries max output tokens min(model.maxOutputTokens,
\* 8192 * 2^k), unless reasoning raises it further.
C12_MaxTokensDoubles ==
  (pc = "sent" /\ ~ReasoningRaisesMaxTokens)
    => request.maxTokens = Min(modelConfig.maxOutputTokens,
                               defaultOutputTokenCount * 2 ^ maxTokensExceededCount)

\* toolChoice is absent: in the Bedrock request after the removal of an
\* unsupported toolChoice; on the Anthropic path, which sends no tool_choice,
\* in the input
ToolChoiceAbsent ==
  IF request.provider = "bedrock"
    THEN request.toolChoice = "absent" ELSE input.toolChoice = "absent"

\* C14: on both provider paths reasoning is enabled in the request if and only
\* if the model supports reasoning, toolChoice is absent, and the
\* second-to-last message does not end with a toolUse block while its first
\* block is no reasoning block.
C14_ReasoningGate ==
  pc = "sent"
    => (request.reasoning
          <=> /\ modelConfig.reasoningSupport
              /\ ToolChoiceAbsent
              /\ ~(/\ SecondToLastEndsWithToolUse(input.messages)
                   /\ ~SecondToLastStartsWithReasoning(input.messages)))

\* C15: on both provider paths a request with reasoning disabled holds no
\* reasoning (thinking) block in any message.
C15_NoReasoningBlocksWhenDisabled ==
  (pc = "sent" /\ ~request.reasoning)
    => \A i \in 1..Len(request.messages) :
         \A j \in 1..Len(request.messages[i].content) :
           request.messages[i].content[j].kind \notin {"reasoningContent", "thinking"}

\* the last user message that has a text block holds the keyword in one of
\* its texts, in any case
UltraThinkRequested ==
  LET withText == {i \in 1..Len(input.messages) :
                     /\ input.messages[i].role = "user"
                     /\ \E j \in 1..Len(input.messages[i].content) :
                          input.messages[i].content[j].kind = "text"}
  IN /\ withText # {}
     /\ LET last == CHOOSE i \in withText : \A k \in withText : k <= i
        IN \E j \in 1..Len(input.messages[last].content) :
             /\ input.messages[last].content[j].kind = "text"
             /\ Includes(ToLowerCase(input.messages[last].content[j].text),
                         ULTRA_THINKING_KEYWORD)

\* C16: when reasoning is enabled, the budget of the request is
\* min(floor(maxOutputTokens / 2), 31999) if the last user message that has
\* text holds 'ultrathink' in any case, and 2000 if not; user messages without
\* text (tool results) between it and the end do not count.
C16_UltraThinkBudget ==
  (pc = "sent" /\ request.reasoning)
    => /\ request.budget_tokens =
            IF UltraThinkRequested
              THEN Min(modelConfig.maxOutputTokens \div 2, maxUltraBudget)
              ELSE defaultBudget
       /\ Min(modelConfig.maxOutputTokens \div 2, maxUltraBudget) # defaultBudget

C16_Witness ==
  /\ pc = "sent"
  /\ request.reasoning
  /\ request.budget_tokens = maxUltraBudget
  /\ input.messages[Len(input.messages)].content[1].kind = "toolResult"

WithoutCachePoints(blocks) == SelectSeq(blocks, LAMBDA b : b.kind # "cachePoint")

WithoutReasoning(blocks) == SelectSeq(blocks, LAMBDA b : b.kind # "reasoningContent")

\* what a layer must look like in the normalized request
Normalized(layer, blocks) ==
  IF layer \in modelConfig.cacheSupport THEN blocks ELSE WithoutCachePoints(blocks)

\* C17: in the request preProcessInput returns, a layer (system, tool,
\* message) the model does not list in cacheSupport holds no cachePoint and
\* its other entries in their order; a layer it lists is as in the input
\* (messages apart from the reasoning blocks that were stripped).
C17_CachePurity ==
  (pc = "sent" /\ request.provider = "bedrock")
    => /\ request.system = Normalized("system", input.system)
       /\ request.tools = Normalized("tool", input.tools)
       /\ Len(request.messages) = Len(input.messages)
       /\ \A i \in 1..Len(input.messages) :
            /\ request.messages[i].role = input.messages[i].role
            /\ WithoutReasoning(request.messages[i].content)
                 = WithoutReasoning(Normalized("message", input.messages[i].content))

C17_Witness ==
  /\ pc = "sent"
  /\ request.provider = "bedrock"
  /\ modelConfig.cacheSupport = {"message"}
  /\ request.system = <<TextBlock(<<"s", "y", "s">>)>>
  /\ Len(request.messages) = 3
  /\ request.messages[1].content[Len(request.messages[1].content)] = CachePointBlock

\* C28: whenever reasoning is enabled with budget B, the max output tokens of
\* the request are at least min(2B, maxOutputTokens) and at most
\* maxOutputTokens, so that B is strictly below them, on both provider paths.
C28_BudgetBelowMaxTokens ==
  (pc = "sent" /\ request.reasoning)
    => /\ request.maxTokens >= Min(2 * request.budget_tokens,
                                   modelConfig.maxOutputTokens)
       /\ request.maxTokens <= modelConfig.maxOutputTokens
       /\ request.budget_tokens < request.maxTokens

\* C35: on the Anthropic path the cache markers of the loop's request are
\* honoured: the system block whose text is followed by the cachePoint entry,
\* and the tool that is followed by the trailing cachePoint entry of the
\* catalog, carry cache_control in the outbound request.
C35_AnthropicCacheMarkersHonoured ==
  (pc = "sent" /\ request.provider = "anthropic")
    => /\ \A i \in 1..(Len(input.system) - 1) :
            (input.system[i].kind = "text" /\ input.system[i + 1].kind = "cachePoint")
              => \E j \in 1..Len(request.system) :
                   /\ request.system[j] = input.system[i]
                   /\ request.systemCacheControl[j]
       /\ (Len(input.tools) > 1 /\ input.tools[Len(input.tools)].kind = "cachePoint")
            => /\ Len(request.tools) > 0
               /\ request.toolsCacheControl[Len(request.tools)]

(* ---- claims about the window of a turn (SpecContext) ---- *)

CachePointsOfRequest ==
  {i - 1 : i \in {j \in 1..Len(window.messages) : window.messages[j].cachePoint}}

\* C19: when the history the turn starts on exceeds the cap, the first
\* request of the turn carries its message cache points on the last message
\* only.
C19_CachePointsCollapsed ==
  (/\ pc = "calling"
   /\ appendedItems = <<>>
   /\ TotalTokenCount(allItems) > tokenThreshold)
    => CachePointsOfRequest = {Len(window.messages) - 1}

\* the tokenCount sum over the items of the session: the history the turn
\* read, with the count of its last item as the turn has updated it, and the
\* items the turn has saved
SessionTokenSum ==
  IF pc = "entry" THEN TotalTokenCount(allItems)
  ELSE TotalTokenCount(allItems) - allItems[Len(allItems)].tokenCount
         + initialItems[Len(initialItems)].tokenCount
         + TotalTokenCount(appendedItems)

\* C25: the tokenCount sum over all items of a session is at least 0, and a
\* negative tokenCount occurs only on a user-role item that was the last item
\* of the window when a response arrived.
C25_TokenSumNonNegative ==
  /\ SessionTokenSum >= 0
  /\ \A i \in 1..Len(initialItems) :
       initialItems[i].tokenCount < 0
         => i = Len(initialItems) /\ initialItems[i].role = "user"
            /\ res # None
  /\ \A i \in 1..Len(appendedItems) :
       appendedItems[i].tokenCount < 0
         => appendedItems[i].messageType = "toolResult"
            /\ (i < Len(appendedItems) \/ pc = "afterLoop")

\* C27: before each LLM call cache points are appended to at least one and
\* at most two distinct messages at valid indexes: the last message and,
\* under no-op filtering with more than two messages, the message at index
\* len-3, which after the first iteration is the last message of the
\* previous call.
C27_CachePointPlacement ==
  pc = "calling"
    => LET n == Len(window.messages)
       IN /\ Cardinality(CachePointsOfRequest) \in {1, 2}
          /\ CachePointsOfRequest \subseteq 0..(n - 1)
          /\ (n - 1) \in CachePointsOfRequest
          /\ (window.filter = "noOp" /\ n > 2)
               => CachePointsOfRequest = {n - 3, n - 1}
          /\ (window.filter = "noOp" /\ n <= 2)
               => CachePointsOfRequest = {n - 1}

\* C30: after a response the tokenCount of the last item of the window (a
\* user-role item) is the billed input tokens minus the tokenCount sum of
\* the filtered window, no other item changes, and under no-op filtering
\* with a last item that had tokenCount 0 the sum over the window's items
\* is then the billed input tokens.
C30_LastItemGetsBilledDifference ==
  [][(pc = "calling" /\ pc' # "calling")
       => LET items == initialItems \o appendedItems
              n == Len(items)
              updated == SubSeq(initialItems' \o appendedItems', 1, n)
          IN /\ items[n].role = "user"
             /\ updated[n].tokenCount = res'.inputTokens - window.totalTokenCount
             /\ \A i \in 1..(n - 1) : updated[i] = items[i]
             /\ (window.filter = "noOp" /\ items[n].tokenCount = 0)
                  => TotalTokenCount(updated) = res'.inputTokens]_vars

\* the second response of a turn was billed 195,000 input tokens for a
\* no-op window whose last item, a toolResult, had tokenCount 0
C30_Witness ==
  /\ pc = "loopTop"
  /\ Len(appendedItems) = 4
  /\ window.filter = "noOp"
  /\ res.inputTokens = 195000
  /\ appendedItems[2].tokenCount = res.inputTokens - window.totalTokenCount
  /\ appendedItems[2].tokenCount > 0

(* ---- claims about the session title (SpecTitle) ---- *)

\* C26: every title the loop stores for a session is non-empty and has at
\* most 15 characters after trimming, whatever text the model returns.
C26_TitleAtMost15 ==
  (pc = "finally" /\ title # <<>>)
    => /\ Len(Trim(title)) >= 1
       /\ Len(Trim(title)) <= maxTitleLength

(* ---- claims about the token ledger (SpecLedger) ---- *)

\* the usage of the calls that have completed, summed for one counter
RECURSIVE CompletedUsage(_, _)
CompletedUsage(c, counter) ==
  IF c = 0 THEN 0
  ELSE (IF calls[c].pc = "done" THEN calls[c].usage[counter] ELSE 0)
         + CompletedUsage(c - 1, counter)

\* no call of trackTokenUsage is between its commands
Quiescent == \A c \in 1..MaxCalls : calls[c].pc \in {"idle", "done", "failed"}

\* C24: after any interleaving of trackTokenUsage calls for one key, two
\* calls that both run before the item exists included, each counter equals
\* the sum of the usage of the completed calls, and no counter ever decreases.
C24_LedgerIsSumOfCalls ==
  /\ [](Quiescent =>
          /\ ledger.inputToken = CompletedUsage(MaxCalls, "inputTokens")
          /\ ledger.outputToken = CompletedUsage(MaxCalls, "outputTokens")
          /\ ledger.cacheReadInputTokens =
               CompletedUsage(MaxCalls, "cacheReadInputTokens")
          /\ ledger.cacheWriteInputTokens =
               CompletedUsage(MaxCalls, "cacheWriteInputTokens"))
  /\ [][/\ ledger'.inputToken >= ledger.inputToken
        /\ ledger'.outputToken >= ledger.outputToken
        /\ ledger'.cacheReadInputTokens >= ledger.cacheReadInputTokens
        /\ ledger'.cacheWriteInputTokens >= ledger.cacheWriteInputTokens]_vars

(* ---- claims about the history load (SpecHistory) ---- *)

\* C39: the history load ends without error after at most 5 reads: a read
\* that finds the log empty or ending with a userMessage returns at once; a
\* read that finds any other last item is repeated while it is not the 5th,
\* and the 5th read returns the history whatever its last item, so that the
\* turn goes on.
C39_HistoryLoadTerminates ==
  /\ [](/\ attemptCount \in 1..5
        /\ pc \in {"entry", "loopTop"}
        /\ pc = "loopTop" => (error = "none" /\ historyLen = Len(log)))
  /\ [][(pc = "entry" /\ log' = log) =>
          IF LastMessageType(log) \in {"undefined", "userMessage"}
            THEN pc' = "loopTop" /\ attemptCount' = attemptCount
          ELSE IF attemptCount < 5
            THEN pc' = "entry" /\ attemptCount' = attemptCount + 1
          ELSE pc' = "loopTop"]_vars

\* the 5th read has returned a history that ends with an assistantResponse
C39_Witness ==
  /\ pc = "loopTop"
  /\ attemptCount = 5
  /\ LastMessageType(log) = "assistantResponse"
  /\ historyLen = Len(log)

(* ---- claims about the setup and the tools of a turn (SpecAgent) ---- *)

\* C31: the handler of a built-in tool is called only if the name of the tool
\* is in the tool list of the agent or is one of reportProgress, todoInit,
\* todoUpdate and sendImage; a toolUse that names any other built-in tool
\* gets the error text of a tool that is not found, without a call of its
\* handler; and the four required tools are in the catalog that is offered to
\* the model, whatever the agent.
C31_OnlyListedToolsRun ==
  /\ []((pc = "toolRunning" /\ ~(customAgent.mcp /\ toolUse = "mcpTool"))
          => /\ toolUse \in customAgent.tools \cup RequiredTools
             /\ \E i \in 1..Len(BuiltInTools) : BuiltInTools[i] = toolUse)
  /\ [](pc # "entry"
          => \A t \in RequiredTools :
               \E i \in 1..Len(ToolConfig(tools, customAgent)) :
                 ToolConfig(tools, customAgent)[i] = ToolSpecBlock(t))
  /\ [][(/\ pc = "toolExec"
         /\ \E i \in 1..Len(BuiltInTools) : BuiltInTools[i] = toolUse
         /\ toolUse \notin customAgent.tools \cup RequiredTools)
          => /\ pc' = "toolResultEvent"
             /\ toolResult' = CatchToolError("tool is not found")]_vars

\* fileEdit was requested from an agent that lists only ci: the error text is
\* the toolResult
C31_Witness ==
  /\ pc = "toolResultEvent"
  /\ toolUse = "fileEdit"
  /\ customAgent.tools = {"ci"}
  /\ toolResult = CatchToolError("tool is not found")

\* number of sections of a prompt with the given heading
Sections(prompt, heading) ==
  Cardinality({i \in 1..Len(prompt) : prompt[i] = heading})

\* C38: the system prompt of every LLM call of a turn holds at most one
\* '## Repository Knowledge' section and at most one '## Common Prompt'
\* section, after any number of cloneRepository calls and whether or not
\* the repository metadata existed when the turn started.
C38_AtMostOneKnowledgeSection ==
  pc = "calling"
    => /\ Sections(systemPrompt, "## Repository Knowledge") <= 1
       /\ Sections(systemPrompt, "## Common Prompt") <= 1

(* ---- claims about the session records (SpecSessions) ---- *)

\* the time whose padded form is the sort key of session w
TimeOfKey(w) ==
  LET key == sessions[w].LSI1
      RECURSIVE ValueOf(_)
      ValueOf(i) ==
        IF i = 0 THEN 0
        ELSE 10 * ValueOf(i - 1)
               + (CHOOSE k \in 0..9 :
                    <<"0", "1", "2", "3", "4", "5", "6", "7", "8", "9">>[k + 1] = key[i])
  IN ValueOf(Len(key))

\* C33: getSessions(limit, range) with limit > 0 returns exactly the sessions
\* that are not hidden among the limit newest sessions (by LSI1, within the
\* range if one is given), newest first; with limit = 0 it returns every
\* session of the range that is not hidden; a hidden session is never
\* returned.
C33_ListingIsNewestNonHidden ==
  [][listing' # listing =>
       LET l == listing'
           time == [w \in 1..MaxSessions |->
                      IF sessions[w].exists THEN TimeOfKey(w) ELSE 0]
           all == {w \in 1..MaxSessions :
                     /\ sessions[w].exists
                     /\ l.range # <<>> =>
                          (l.range[1] <= time[w] /\ time[w] <= l.range[2])}
           listed == {l.items[i] : i \in 1..Len(l.items)}
       IN /\ Cardinality(listed) = Len(l.items)
          /\ \A w \in listed : sessions[w].exists /\ ~sessions[w].isHidden
          /\ \A i, j \in 1..Len(l.items) :
               i < j => time[l.items[i]] >= time[l.items[j]]
          /\ l.limit = 0 => listed = {w \in all : ~sessions[w].isHidden}
          /\ l.limit > 0 =>
               \E newest \in SUBSET all :
                 /\ Cardinality(newest) = Min(l.limit, Cardinality(all))
                 /\ \A t \in newest, u \in all \ newest : time[t] >= time[u]
                 /\ listed = {w \in newest : ~sessions[w].isHidden}]_vars

\* a listing with limit 1 of two sessions, the newer one hidden and written
\* at time 10, the older one at time 9: nothing is returned
C33_Witness ==
  /\ listing.called
  /\ listing.limit = 1
  /\ listing.range = <<>>
  /\ listing.items = <<>>
  /\ \E w, v \in 1..MaxSessions :
       /\ sessions[w].exists /\ sessions[w].isHidden /\ TimeOfKey(w) = 10
       /\ sessions[v].exists /\ ~sessions[v].isHidden /\ TimeOfKey(v) = 9

\* C34: for every session record, after any sequence of session updates,
\* LSI1 is the updatedAt of the record padded with zeros to 15 digits.
C34_Lsi1IsPaddedUpdatedAt ==
  \A w \in 1..MaxSessions :
    sessions[w].exists => sessions[w].LSI1 = PadTimestamp(sessions[w].updatedAt)


====
